---------------------------- MODULE Spec2Model ----------------------------
(***************************************************************************)
(* Decision engine of the Datachatbot repository: domain detection,        *)
(* intent classification and entity extraction (chatbot/intent_classifier  *)
(* .py), chart selection and the rows of bar and pie charts (chatbot/      *)
(* visualizer.py), the SQL prompt (chatbot/query_generator.py) and the     *)
(* orchestration of one request (chatbot/agent.py).                        *)
(*                                                                         *)
(* Text is a sequence of one-character strings, so that lowercasing and    *)
(* Python's substring test `kw in text` are computed character by          *)
(* character.  A float is an exact rational [nan, n, d] in lowest terms,   *)
(* or the IEEE not-a-number value; rounding of binary floating point is    *)
(* not modelled.                                                           *)
(***************************************************************************)
EXTENDS Integers, Sequences, FiniteSets, TLC

(***************************************************************************)
(* Text                                                                    *)
(***************************************************************************)
UpperChars ==
  <<"A","B","C","D","E","F","G","H","I","J","K","L","M",
    "N","O","P","Q","R","S","T","U","V","W","X","Y","Z">>

LowerChars ==
  <<"a","b","c","d","e","f","g","h","i","j","k","l","m",
    "n","o","p","q","r","s","t","u","v","w","x","y","z">>

\* str.lower() on one character
LowerOf ==
  [c \in {UpperChars[i] : i \in 1..Len(UpperChars)} |->
     LowerChars[CHOOSE i \in 1..Len(UpperChars) : UpperChars[i] = c]]

LowerChar(c) == IF c \in DOMAIN LowerOf THEN LowerOf[c] ELSE c

RECURSIVE Lower(_)
\* str.lower()
Lower(text) ==
  IF Len(text) = 0 THEN <<>>
  ELSE <<LowerChar(Head(text))>> \o Lower(Tail(text))

\* Python's `kw in text` on strings
Contains(text, kw) ==
  \/ Len(kw) = 0
  \/ \E i \in 1..(Len(text) - Len(kw) + 1) :
        /\ text[i] = kw[1]
        /\ SubSeq(text, i, i + Len(kw) - 1) = kw

\* any(word in text for word in words)
ContainsAny(text, words) == \E i \in 1..Len(words) : Contains(text, words[i])

RECURSIVE Join(_, _)
\* sep.join(parts)
Join(sep, parts) ==
  IF Len(parts) = 0 THEN <<>>
  ELSE IF Len(parts) = 1 THEN parts[1]
  ELSE parts[1] \o sep \o Join(sep, Tail(parts))

Space == <<" ">>

\* Python's None, and a value that is present
None == <<>>
Some(x) == <<x>>

(***************************************************************************)
(* Floats                                                                  *)
(***************************************************************************)
Abs(i) == IF i < 0 THEN -i ELSE i

RECURSIVE GCD(_, _)
GCD(a, b) == IF b = 0 THEN a ELSE GCD(b, a % b)

NaN == [nan |-> TRUE, n |-> 0, d |-> 1]

\* the float n/d, d # 0, in lowest terms with a positive denominator
Rat(n, d) ==
  LET g == GCD(Abs(n), Abs(d))
      s == IF d < 0 THEN -1 ELSE 1
  IN  [nan |-> FALSE, n |-> (s * n) \div g, d |-> (s * d) \div g]

FAdd(a, b) ==
  IF a.nan \/ b.nan THEN NaN ELSE Rat(a.n * b.d + b.n * a.d, a.d * b.d)

FMul(a, b) ==
  IF a.nan \/ b.nan THEN NaN ELSE Rat(a.n * b.n, a.d * b.d)

\* IEEE comparisons: every comparison with NaN is false
FLt(a, b) == ~a.nan /\ ~b.nan /\ a.n * b.d < b.n * a.d
FGt(a, b) == FLt(b, a)
FEq(a, b) == ~a.nan /\ ~b.nan /\ a.n * b.d = b.n * a.d
FLe(a, b) == FLt(a, b) \/ FEq(a, b)
FGe(a, b) == FLe(b, a)

RECURSIVE MaxIndexLast(_, _, _)
\* max() that lets a later equal value replace the running best
MaxIndexLast(vals, i, best) ==
  IF i > Len(vals) THEN best
  ELSE MaxIndexLast(vals, i + 1, IF FGe(vals[i], vals[best]) THEN i ELSE best)

RECURSIVE MaxIndex(_, _, _)
\* the loop of Python's max(): the running best is replaced only by a
\* strictly greater value, so the first of several maximal values is kept
MaxIndex(vals, i, best) ==
  IF i > Len(vals) THEN best
  ELSE MaxIndex(vals, i + 1, IF FGt(vals[i], vals[best]) THEN i ELSE best)

\* max(vals) on a non-empty list
PyMax(vals) == vals[MaxIndex(vals, 2, 1)]

(***************************************************************************)
(* Dictionaries keep insertion order: a sequence of [k, v] entries         *)
(***************************************************************************)
DictKeys(dict) == [i \in 1..Len(dict) |-> dict[i].k]
DictValues(dict) == [i \in 1..Len(dict) |-> dict[i].v]
HasKey(dict, key) == \E i \in 1..Len(dict) : dict[i].k = key

\* dict.get(key, default)
DictGet(dict, key, default) ==
  IF HasKey(dict, key)
    THEN dict[CHOOSE i \in 1..Len(dict) : dict[i].k = key].v
    ELSE default

\* dict[key]
DictAt(dict, key) == dict[CHOOSE i \in 1..Len(dict) : dict[i].k = key].v

\* max(dict, key=dict.get) on a non-empty dict
PyArgMax(dict) == dict[MaxIndex(DictValues(dict), 2, 1)].k

(***************************************************************************)
(* Embedding vectors                                                       *)
(***************************************************************************)
Dot(u, v) == u[1] * v[1] + u[2] * v[2] + u[3] * v[3]

\* np.linalg.norm on the vectors used here, whose norms are whole numbers
Norm(v) == CHOOSE r \in 0..Dot(v, v) : r * r = Dot(v, v)

\* np.dot(u, v) / (np.linalg.norm(u) * np.linalg.norm(v)): a zero norm
\* gives 0/0, which numpy evaluates to nan (with a warning, not an error)
Cosine(u, v) ==
  IF Norm(u) * Norm(v) = 0 THEN NaN ELSE Rat(Dot(u, v), Norm(u) * Norm(v))

IntentsTable ==
  <<
     [name |-> "generate_report",
      keywords |->
        << <<"g","e","n","e","r","a","t","e"," ","r","e","p","o","r","t">>,
           <<"c","r","e","a","t","e"," ","r","e","p","o","r","t">>,
           <<"s","h","o","w"," ","r","e","p","o","r","t">>, <<"m","a","k","e"," ","r","e","p","o","r","t">> >>],
     [name |-> "query_data",
      keywords |->
        << <<"s","h","o","w"," ","m","e">>, <<"g","e","t"," ","d","a","t","a">>,
           <<"w","h","a","t"," ","i","s">>, <<"d","i","s","p","l","a","y">>, <<"f","e","t","c","h">>,
           <<"r","e","t","r","i","e","v","e">> >>],
     [name |-> "analyze_metrics",
      keywords |->
        << <<"t","o","t","a","l">>, <<"s","u","m">>, <<"a","v","e","r","a","g","e">>, <<"c","o","u","n","t">>,
           <<"c","a","l","c","u","l","a","t","e">>, <<"c","o","m","p","u","t","e">> >>],
     [name |-> "compare",
      keywords |->
        << <<"c","o","m","p","a","r","e">>, <<"v","e","r","s","u","s">>, <<"v","s">>,
           <<"d","i","f","f","e","r","e","n","c","e">>, <<"b","e","t","w","e","e","n">> >>],
     [name |-> "trend",
      keywords |->
        << <<"t","r","e","n","d">>, <<"o","v","e","r"," ","t","i","m","e">>, <<"g","r","o","w","t","h">>,
           <<"c","h","a","n","g","e">>, <<"t","i","m","e","l","i","n","e">> >>],
     [name |-> "filter",
      keywords |->
        << <<"f","i","l","t","e","r">>, <<"w","h","e","r","e">>, <<"o","n","l","y">>,
           <<"s","p","e","c","i","f","i","c">>, <<"p","a","r","t","i","c","u","l","a","r">> >>],
     [name |-> "top_bottom",
      keywords |->
        << <<"t","o","p">>, <<"b","o","t","t","o","m">>, <<"b","e","s","t">>, <<"w","o","r","s","t">>,
           <<"h","i","g","h","e","s","t">>, <<"l","o","w","e","s","t">> >>]
  >>

DomainSignaturesTable ==
  <<
     [name |-> "healthcare",
      keywords |->
        << <<"p","a","t","i","e","n","t">>, <<"d","i","a","g","n","o","s","i","s">>,
           <<"t","r","e","a","t","m","e","n","t">>, <<"m","e","d","i","c","a","t","i","o","n">>,
           <<"p","r","e","s","c","r","i","p","t","i","o","n">>, <<"d","o","c","t","o","r">>,
           <<"p","h","y","s","i","c","i","a","n">>, <<"m","e","d","i","c","a","l">>,
           <<"c","l","i","n","i","c">>, <<"s","y","m","p","t","o","m">>, <<"d","i","s","e","a","s","e">>,
           <<"i","c","d">>, <<"c","p","t">>, <<"v","i","t","a","l","_","s","i","g","n","s">>,
           <<"b","l","o","o","d","_","p","r","e","s","s","u","r","e">>,
           <<"h","e","a","r","t","_","r","a","t","e">> >>,
      description |->
        <<"m", "e", "d", "i", "c", "a", "l", " ", "h", "e", "a", "l", "t", "h", "c", "a", "r", "e", " ", "p",
          "a", "t", "i", "e", "n", "t", " ", "d", "i", "a", "g", "n", "o", "s", "i", "s", " ", "t", "r", "e",
          "a", "t", "m", "e", "n", "t", " ", "d", "o", "c", "t", "o", "r", " ", "h", "o", "s", "p", "i", "t",
          "a", "l", " ", "p", "h", "a", "r", "m", "a", "c", "y", " ", "m", "e", "d", "i", "c", "i", "n", "e",
          " ", "c", "l", "i", "n", "i", "c", "a", "l">>],
     [name |-> "finance",
      keywords |->
        << <<"t","r","a","n","s","a","c","t","i","o","n">>, <<"a","c","c","o","u","n","t">>,
           <<"b","a","l","a","n","c","e">>, <<"r","e","v","e","n","u","e">>, <<"p","r","o","f","i","t">>,
           <<"l","o","s","s">>, <<"i","n","v","o","i","c","e">>, <<"p","a","y","m","e","n","t">>,
           <<"c","r","e","d","i","t">>, <<"d","e","b","i","t">>, <<"l","e","d","g","e","r">>,
           <<"e","x","p","e","n","s","e">>, <<"i","n","c","o","m","e">>, <<"b","u","d","g","e","t">>,
           <<"i","n","v","e","s","t","m","e","n","t">>, <<"l","o","a","n">>,
           <<"i","n","t","e","r","e","s","t">> >>,
      description |->
        <<"f", "i", "n", "a", "n", "c", "i", "a", "l", " ", "m", "o", "n", "e", "y", " ", "t", "r", "a", "n",
          "s", "a", "c", "t", "i", "o", "n", " ", "a", "c", "c", "o", "u", "n", "t", " ", "b", "a", "l", "a",
          "n", "c", "e", " ", "p", "a", "y", "m", "e", "n", "t", " ", "i", "n", "v", "o", "i", "c", "e", " ",
          "r", "e", "v", "e", "n", "u", "e", " ", "p", "r", "o", "f", "i", "t", " ", "b", "a", "n", "k", "i",
          "n", "g", " ", "i", "n", "v", "e", "s", "t", "m", "e", "n", "t">>],
     [name |-> "hospital",
      keywords |->
        << <<"a","d","m","i","s","s","i","o","n">>, <<"d","i","s","c","h","a","r","g","e">>,
           <<"w","a","r","d">>, <<"b","e","d">>, <<"n","u","r","s","e">>,
           <<"e","m","e","r","g","e","n","c","y">>, <<"s","u","r","g","e","r","y">>,
           <<"r","a","d","i","o","l","o","g","y">>, <<"l","a","b","_","t","e","s","t">>, <<"i","c","u">>,
           <<"o","p","e","r","a","t","i","o","n">>, <<"i","n","p","a","t","i","e","n","t">>,
           <<"o","u","t","p","a","t","i","e","n","t">>, <<"a","p","p","o","i","n","t","m","e","n","t">>,
           <<"r","o","o","m">> >>,
      description |->
        <<"h", "o", "s", "p", "i", "t", "a", "l", " ", "a", "d", "m", "i", "s", "s", "i", "o", "n", " ", "p",
          "a", "t", "i", "e", "n", "t", " ", "w", "a", "r", "d", " ", "b", "e", "d", " ", "n", "u", "r", "s",
          "e", " ", "e", "m", "e", "r", "g", "e", "n", "c", "y", " ", "s", "u", "r", "g", "e", "r", "y", " ",
          "m", "e", "d", "i", "c", "a", "l", " ", "r", "e", "c", "o", "r", "d", "s", " ", "d", "e", "p", "a",
          "r", "t", "m", "e", "n", "t">>],
     [name |-> "retail",
      keywords |->
        << <<"p","r","o","d","u","c","t">>, <<"s","a","l","e","s">>, <<"c","u","s","t","o","m","e","r">>,
           <<"o","r","d","e","r">>, <<"i","n","v","e","n","t","o","r","y">>,
           <<"p","u","r","c","h","a","s","e">>, <<"s","k","u">>, <<"p","r","i","c","e">>,
           <<"q","u","a","n","t","i","t","y">>, <<"s","t","o","r","e">>, <<"c","a","r","t">>,
           <<"c","h","e","c","k","o","u","t">>, <<"s","h","i","p","p","i","n","g">>,
           <<"d","e","l","i","v","e","r","y">>, <<"s","u","p","p","l","i","e","r">>, <<"s","t","o","c","k">> >>,
      description |->
        <<"r", "e", "t", "a", "i", "l", " ", "s", "a", "l", "e", "s", " ", "p", "r", "o", "d", "u", "c", "t",
          " ", "c", "u", "s", "t", "o", "m", "e", "r", " ", "o", "r", "d", "e", "r", " ", "i", "n", "v", "e",
          "n", "t", "o", "r", "y", " ", "p", "u", "r", "c", "h", "a", "s", "e", " ", "s", "h", "o", "p", "p",
          "i", "n", "g", " ", "e", "c", "o", "m", "m", "e", "r", "c", "e", " ", "s", "t", "o", "r", "e">>],
     [name |-> "education",
      keywords |->
        << <<"s","t","u","d","e","n","t">>, <<"t","e","a","c","h","e","r">>, <<"c","o","u","r","s","e">>,
           <<"g","r","a","d","e">>, <<"e","x","a","m">>, <<"a","s","s","i","g","n","m","e","n","t">>,
           <<"e","n","r","o","l","l","m","e","n","t">>, <<"c","l","a","s","s">>,
           <<"s","u","b","j","e","c","t">>, <<"s","e","m","e","s","t","e","r">>,
           <<"d","e","p","a","r","t","m","e","n","t">>, <<"f","a","c","u","l","t","y">>,
           <<"a","t","t","e","n","d","a","n","c","e">>, <<"m","a","r","k","s">>, <<"g","p","a">> >>,
      description |->
        <<"e", "d", "u", "c", "a", "t", "i", "o", "n", " ", "s", "t", "u", "d", "e", "n", "t", " ", "t", "e",
          "a", "c", "h", "e", "r", " ", "c", "o", "u", "r", "s", "e", " ", "g", "r", "a", "d", "e", " ", "e",
          "x", "a", "m", " ", "s", "c", "h", "o", "o", "l", " ", "u", "n", "i", "v", "e", "r", "s", "i", "t",
          "y", " ", "c", "o", "l", "l", "e", "g", "e", " ", "l", "e", "a", "r", "n", "i", "n", "g">>],
     [name |-> "hr",
      keywords |->
        << <<"e","m","p","l","o","y","e","e">>, <<"s","a","l","a","r","y">>,
           <<"d","e","p","a","r","t","m","e","n","t">>, <<"p","a","y","r","o","l","l">>,
           <<"l","e","a","v","e">>, <<"a","t","t","e","n","d","a","n","c","e">>,
           <<"r","e","c","r","u","i","t","m","e","n","t">>, <<"p","e","r","f","o","r","m","a","n","c","e">>,
           <<"a","p","p","r","a","i","s","a","l">>, <<"m","a","n","a","g","e","r">>, <<"h","i","r","e">>,
           <<"r","e","s","i","g","n","a","t","i","o","n">>, <<"p","r","o","m","o","t","i","o","n">>,
           <<"b","o","n","u","s">>, <<"b","e","n","e","f","i","t","s">> >>,
      description |->
        <<"h", "u", "m", "a", "n", " ", "r", "e", "s", "o", "u", "r", "c", "e", "s", " ", "e", "m", "p", "l",
          "o", "y", "e", "e", " ", "s", "a", "l", "a", "r", "y", " ", "d", "e", "p", "a", "r", "t", "m", "e",
          "n", "t", " ", "p", "a", "y", "r", "o", "l", "l", " ", "r", "e", "c", "r", "u", "i", "t", "m", "e",
          "n", "t", " ", "p", "e", "r", "f", "o", "r", "m", "a", "n", "c", "e", " ", "m", "a", "n", "a", "g",
          "e", "m", "e", "n", "t">>],
     [name |-> "logistics",
      keywords |->
        << <<"s","h","i","p","m","e","n","t">>, <<"d","e","l","i","v","e","r","y">>,
           <<"w","a","r","e","h","o","u","s","e">>, <<"t","r","a","n","s","p","o","r","t">>,
           <<"t","r","a","c","k","i","n","g">>, <<"c","a","r","r","i","e","r">>,
           <<"f","r","e","i","g","h","t">>, <<"r","o","u","t","e">>, <<"v","e","h","i","c","l","e">>,
           <<"d","r","i","v","e","r">>, <<"c","a","r","g","o">>, <<"d","i","s","p","a","t","c","h">>,
           <<"l","o","a","d","i","n","g">>, <<"u","n","l","o","a","d","i","n","g">>,
           <<"i","n","v","e","n","t","o","r","y">> >>,
      description |->
        <<"l", "o", "g", "i", "s", "t", "i", "c", "s", " ", "s", "h", "i", "p", "p", "i", "n", "g", " ", "d",
          "e", "l", "i", "v", "e", "r", "y", " ", "w", "a", "r", "e", "h", "o", "u", "s", "e", " ", "t", "r",
          "a", "n", "s", "p", "o", "r", "t", " ", "t", "r", "a", "c", "k", "i", "n", "g", " ", "f", "r", "e",
          "i", "g", "h", "t", " ", "s", "u", "p", "p", "l", "y", " ", "c", "h", "a", "i", "n">>],
     [name |-> "ecommerce",
      keywords |->
        << <<"c","a","r","t">>, <<"c","h","e","c","k","o","u","t">>, <<"p","a","y","m","e","n","t">>,
           <<"o","r","d","e","r">>, <<"c","u","s","t","o","m","e","r">>, <<"p","r","o","d","u","c","t">>,
           <<"r","e","v","i","e","w">>, <<"r","a","t","i","n","g">>, <<"w","i","s","h","l","i","s","t">>,
           <<"d","i","s","c","o","u","n","t">>, <<"c","o","u","p","o","n">>, <<"r","e","f","u","n","d">>,
           <<"s","h","i","p","p","i","n","g">>, <<"r","e","t","u","r","n","s">>, <<"b","r","o","w","s","e">> >>,
      description |->
        <<"e", "c", "o", "m", "m", "e", "r", "c", "e", " ", "o", "n", "l", "i", "n", "e", " ", "s", "h", "o",
          "p", "p", "i", "n", "g", " ", "c", "a", "r", "t", " ", "c", "h", "e", "c", "k", "o", "u", "t", " ",
          "p", "a", "y", "m", "e", "n", "t", " ", "o", "r", "d", "e", "r", " ", "c", "u", "s", "t", "o", "m",
          "e", "r", " ", "p", "r", "o", "d", "u", "c", "t", " ", "w", "e", "b", "s", "i", "t", "e">>]
  >>

metric_patterns ==
  << <<"t","o","t","a","l">>, <<"s","u","m">>, <<"c","o","u","n","t">>, <<"a","v","e","r","a","g","e">>,
     <<"m","a","x">>, <<"m","i","n">>, <<"r","e","v","e","n","u","e">>, <<"s","a","l","e","s">>,
     <<"p","r","o","f","i","t">>, <<"c","o","s","t">>, <<"p","r","i","c","e">>,
     <<"a","m","o","u","n","t">>, <<"q","u","a","n","t","i","t","y">>, <<"n","u","m","b","e","r">>,
     <<"r","a","t","e">>, <<"p","e","r","c","e","n","t","a","g","e">> >>

dimension_patterns ==
  << <<"p","r","o","d","u","c","t">>, <<"c","u","s","t","o","m","e","r">>, <<"r","e","g","i","o","n">>,
     <<"c","a","t","e","g","o","r","y">>, <<"t","y","p","e">>, <<"d","a","t","e">>, <<"t","i","m","e">>,
     <<"m","o","n","t","h">>, <<"y","e","a","r">>, <<"d","a","y">>,
     <<"d","e","p","a","r","t","m","e","n","t">>, <<"l","o","c","a","t","i","o","n">>,
     <<"c","i","t","y">>, <<"c","o","u","n","t","r","y">>, <<"s","t","a","t","e">> >>

time_map ==
  <<
     [period |-> "last_month",
      keywords |-> << <<"l","a","s","t"," ","m","o","n","t","h">>,
                     <<"p","r","e","v","i","o","u","s"," ","m","o","n","t","h">> >>],
     [period |-> "current_month",
      keywords |-> << <<"t","h","i","s"," ","m","o","n","t","h">>,
                     <<"c","u","r","r","e","n","t"," ","m","o","n","t","h">> >>],
     [period |-> "last_year",
      keywords |-> << <<"l","a","s","t"," ","y","e","a","r">>, <<"p","r","e","v","i","o","u","s"," ","y","e","a","r">> >>],
     [period |-> "current_year",
      keywords |-> << <<"t","h","i","s"," ","y","e","a","r">>, <<"c","u","r","r","e","n","t"," ","y","e","a","r">> >>],
     [period |-> "last_quarter",
      keywords |-> << <<"l","a","s","t"," ","q","u","a","r","t","e","r">>,
                     <<"p","r","e","v","i","o","u","s"," ","q","u","a","r","t","e","r">> >>],
     [period |-> "last_week",
      keywords |-> << <<"l","a","s","t"," ","w","e","e","k">>, <<"p","r","e","v","i","o","u","s"," ","w","e","e","k">> >>]
  >>

AggSumWords == << <<"t","o","t","a","l">>, <<"s","u","m">> >>

AggAverageWords == << <<"a","v","e","r","a","g","e">>, <<"a","v","g">>, <<"m","e","a","n">> >>

AggCountWords == << <<"c","o","u","n","t">> >>

AggMaxWords == << <<"m","a","x">>, <<"m","a","x","i","m","u","m">>, <<"h","i","g","h","e","s","t">> >>

AggMinWords == << <<"m","i","n">>, <<"m","i","n","i","m","u","m">>, <<"l","o","w","e","s","t">> >>

LimitWords == << <<"t","o","p">>, <<"b","o","t","t","o","m">>, <<"f","i","r","s","t">>, <<"l","a","s","t">> >>

WaterfallWords ==
  << <<"p","r","o","f","i","t">>, <<"l","o","s","s">>, <<"b","r","e","a","k","d","o","w","n">>,
     <<"p","&","l">> >>

FunnelWords ==
  << <<"f","u","n","n","e","l">>, <<"c","o","n","v","e","r","s","i","o","n">>,
     <<"p","i","p","e","l","i","n","e">>, <<"s","t","a","g","e","s">> >>

TreemapWords ==
  << <<"h","i","e","r","a","r","c","h","y">>, <<"b","r","e","a","k","d","o","w","n">>,
     <<"c","o","m","p","o","s","i","t","i","o","n">> >>

DistributionWords ==
  << <<"d","i","s","t","r","i","b","u","t","i","o","n">>, <<"s","p","r","e","a","d">>,
     <<"r","a","n","g","e">> >>

CorrelationWords ==
  << <<"c","o","r","r","e","l","a","t","i","o","n">>,
     <<"r","e","l","a","t","i","o","n","s","h","i","p">>, <<"v","s">>, <<"v","e","r","s","u","s">> >>

ComparisonWords ==
  << <<"c","o","m","p","a","r","e">>, <<"c","o","m","p","a","r","i","s","o","n">> >>

PieWords ==
  << <<"s","h","a","r","e">>, <<"p","e","r","c","e","n","t","a","g","e">>,
     <<"p","r","o","p","o","r","t","i","o","n">> >>

TopBottomWords ==
  << <<"t","o","p">>, <<"b","o","t","t","o","m">>, <<"b","e","s","t">>, <<"w","o","r","s","t">> >>

HeatmapWords ==
  << <<"p","a","t","t","e","r","n">>, <<"h","e","a","t","m","a","p">>, <<"m","a","t","r","i","x">> >>

(***************************************************************************)
(* State                                                                   *)
(***************************************************************************)
VARIABLES
  intents,                    \* IntentClassifier.intents
  domain_signatures,          \* IntentClassifier.domain_signatures
  model,                      \* IntentClassifier.model, the embedding provider
  domain_chart_preferences,   \* AutoVisualizer.domain_chart_preferences
  pc,                         \* "idle", or the operation that has been called
                              \* with arg and has not run yet
  op,                         \* the operation that ran last
  arg,                        \* its argument
  ret,                        \* its result
  seen,                       \* an earlier call [op, arg, ret] kept for
                              \* comparison with later ones, or None
  locals                      \* the local variables of the calls of
                              \* ChatbotAgent.process that are under way, one
                              \* frame for each thread

vars ==
  <<intents, domain_signatures, model, domain_chart_preferences,
    pc, op, arg, ret, seen, locals>>

statics == <<intents, domain_signatures, model, domain_chart_preferences>>

(***************************************************************************)
(* IntentClassifier                                                        *)
(***************************************************************************)
\* 0.7 and 0.3, the weights of the semantic and of the keyword score, and
\* the threshold below which the domain is 'general'
SemanticWeight == Rat(7, 10)
KeywordWeight == Rat(3, 10)
GeneralThreshold == Rat(3, 10)
Zero == Rat(0, 1)

\* self.model.encode(text): the embedding provider is a deterministic
\* function of the text.  m.known gives the vectors of the texts it lists,
\* every other text gets a vector of m.rest chosen by its length.
encode(m, text) ==
  IF text \in DOMAIN m.known
    THEN m.known[text]
    ELSE m.rest[(Len(text) % Len(m.rest)) + 1]

RECURSIVE schema_parts(_)
\* text_parts after the loop over schema.items()
schema_parts(schema) ==
  IF Len(schema) = 0 THEN <<>>
  ELSE <<schema[1].table>> \o schema[1].columns \o schema_parts(Tail(schema))

schema_to_text(schema) == Lower(Join(Space, schema_parts(schema)))

\* the keywords that are a whole word of schema_text
KeywordMatchesWholeWord(keywords, schema_text) ==
  Cardinality({i \in 1..Len(keywords) :
                 Contains(Space \o schema_text \o Space,
                          Space \o keywords[i] \o Space)})

\* sum(1 for kw in keywords if kw in schema_text)
KeywordMatches(keywords, schema_text) ==
  Cardinality({i \in 1..Len(keywords) : Contains(schema_text, keywords[i])})

keyword_based_detection(signatures, schema_text) ==
  [i \in 1..Len(signatures) |->
     [k |-> signatures[i].name,
      v |-> IF Len(signatures[i].keywords) > 0
              THEN Rat(KeywordMatches(signatures[i].keywords, schema_text),
                       Len(signatures[i].keywords))
              ELSE Zero]]

semantic_based_detection(signatures, m, schema_text) ==
  LET schema_emb == encode(m, schema_text)
  IN  [i \in 1..Len(signatures) |->
         [k |-> signatures[i].name,
          v |-> Cosine(schema_emb, encode(m, signatures[i].description))]]

\* the texts given to the provider when the vectors of earlier calls are
\* kept: those that the call kept in seen has not encoded
encoded_textsCached(signatures, schema_text) ==
  SelectSeq(<<schema_text>>
              \o [i \in 1..Len(signatures) |-> signatures[i].description],
            LAMBDA text :
              seen = None
                \/ ~\E k \in 1..Len(seen[1].encoded) : seen[1].encoded[k] = text)

\* the texts self.model.encode is called with during one detect_domain
\* call, in the order of the calls: _semantic_based_detection encodes the
\* schema text and then, in its loop, the description of each domain;
\* _schema_to_text and _keyword_based_detection encode nothing
encoded_texts(signatures, schema_text) ==
  <<schema_text>> \o [i \in 1..Len(signatures) |-> signatures[i].description]

\* combined_scores with the two weights exchanged
CombinedScoresSwapped(signatures, keyword_scores, semantic_scores) ==
  [i \in 1..Len(signatures) |->
     [k |-> signatures[i].name,
      v |-> FAdd(FMul(KeywordWeight,
                      DictGet(semantic_scores, signatures[i].name, Zero)),
                 FMul(SemanticWeight,
                      DictGet(keyword_scores, signatures[i].name, Zero)))]]

\* combined_scores of detect_domain
CombinedScores(signatures, keyword_scores, semantic_scores) ==
  [i \in 1..Len(signatures) |->
     [k |-> signatures[i].name,
      v |-> FAdd(FMul(SemanticWeight,
                      DictGet(semantic_scores, signatures[i].name, Zero)),
                 FMul(KeywordWeight,
                      DictGet(keyword_scores, signatures[i].name, Zero)))]]

\* max_score <= 0.3
BelowThresholdLe(max_score) == FLe(max_score, GeneralThreshold)

\* max_score < 0.3
BelowThreshold(max_score) == FLt(max_score, GeneralThreshold)

\* the result (domain_name, confidence_score, all_scores)
detect_domain(signatures, m, schema) ==
  LET schema_text == schema_to_text(schema)
      keyword_scores == keyword_based_detection(signatures, schema_text)
      semantic_scores == semantic_based_detection(signatures, m, schema_text)
      combined_scores ==
        CombinedScores(signatures, keyword_scores, semantic_scores)
      max_score ==
        IF Len(combined_scores) > 0
          THEN PyMax(DictValues(combined_scores)) ELSE Zero
      best_domain == PyArgMax(combined_scores)
  IN  IF BelowThreshold(max_score)
        THEN <<"general", max_score, combined_scores>>
        ELSE <<best_domain, DictAt(combined_scores, best_domain),
               combined_scores>>

\* scores that are those of the previous classify call when there is one
IntentScoresCached(intent_table, m, prompt) ==
  IF op = "classify" THEN ret.all_scores
  ELSE LET prompt_emb == encode(m, Lower(prompt))
       IN  [i \in 1..Len(intent_table) |->
              [k |-> intent_table[i].name,
               v |-> Cosine(prompt_emb,
                            encode(m, Join(Space, intent_table[i].keywords)))]]

\* scores of classify after its loop
IntentScores(intent_table, m, prompt) ==
  LET prompt_lower == Lower(prompt)
      prompt_emb == encode(m, prompt_lower)
  IN  [i \in 1..Len(intent_table) |->
         [k |-> intent_table[i].name,
          v |-> Cosine(prompt_emb,
                       encode(m, Join(Space, intent_table[i].keywords)))]]

\* the result {"intent", "confidence", "all_scores"}
classify(intent_table, m, prompt) ==
  LET scores == IntentScores(intent_table, m, prompt)
      best_intent == PyArgMax(scores)
  IN  [intent |-> best_intent,
       confidence |-> DictAt(scores, best_intent),
       all_scores |-> scores]

(***************************************************************************)
(* IntentClassifier.extract_entities                                       *)
(***************************************************************************)
Digits == <<"0","1","2","3","4","5","6","7","8","9">>
IsDigit(c) == \E i \in 1..Len(Digits) : Digits[i] = c
DigitValue(c) == (CHOOSE i \in 1..Len(Digits) : Digits[i] = c) - 1

\* a character the regular expression class \w matches
IsWordChar(c) ==
  \/ IsDigit(c)
  \/ c = "_"
  \/ \E i \in 1..Len(LowerChars) : LowerChars[i] = c \/ UpperChars[i] = c

\* \b holds between positions i and i+1 of text (0 and Len(text) are its ends)
WordBoundary(text, i) ==
  LET before == i >= 1 /\ IsWordChar(text[i])
      after == i < Len(text) /\ IsWordChar(text[i + 1])
  IN  before # after

\* the regular expression \b(\d+)\b matches text[i..j]
NumberMatch(text, i, j) ==
  /\ i <= j
  /\ \A p \in i..j : IsDigit(text[p])
  /\ WordBoundary(text, i - 1)
  /\ WordBoundary(text, j)

RECURSIVE IntOf(_, _)
\* int(digits), most significant digit first
IntOf(digits, acc) ==
  IF Len(digits) = 0 THEN acc
  ELSE IntOf(Tail(digits), 10 * acc + DigitValue(Head(digits)))

\* re.findall(r'\b(\d+)\b', text)[0] if there is a match: the leftmost
\* match, and at its start the longest one
FirstNumber(text) ==
  LET starts == {i \in 1..Len(text) : \E j \in i..Len(text) : NumberMatch(text, i, j)}
  IN  IF starts = {} THEN None
      ELSE LET i == CHOOSE s \in starts : \A t \in starts : s <= t
               j == CHOOSE e \in i..Len(text) :
                      /\ NumberMatch(text, i, e)
                      /\ \A f \in i..Len(text) : NumberMatch(text, i, f) => f <= e
           IN  Some(SubSeq(text, i, j))

\* the position of the first occurrence of kw in text
FirstOccurrence(text, kw) ==
  CHOOSE i \in 1..Len(text) :
    /\ SubSeq(text, i, i + Len(kw) - 1) = kw
    /\ \A j \in 1..(i - 1) : SubSeq(text, j, j + Len(kw) - 1) # kw

RECURSIVE InOrderOfOccurrence(_, _)
\* the keywords of found, by their first occurrence in text
InOrderOfOccurrence(found, text) ==
  IF found = {} THEN <<>>
  ELSE LET kw == CHOOSE x \in found :
                   \A y \in found :
                     \/ FirstOccurrence(text, x) < FirstOccurrence(text, y)
                     \/ /\ FirstOccurrence(text, x) = FirstOccurrence(text, y)
                        /\ Len(x) <= Len(y)
       IN  <<kw>> \o InOrderOfOccurrence(found \ {kw}, text)

\* the matching keywords in the order of the prompt
MatchingPromptOrder(patterns, text) ==
  InOrderOfOccurrence(
    {patterns[i] : i \in {j \in 1..Len(patterns) : Contains(text, patterns[j])}},
    text)

\* [x for x in patterns if x in text]
Matching(patterns, text) == SelectSeq(patterns, LAMBDA x : Contains(text, x))

RECURSIVE time_periodLast(_, _)
\* the loop over time_map.items() without its break
time_periodLast(map, text) ==
  IF Len(map) = 0 THEN None
  ELSE IF ContainsAny(text, map[Len(map)].keywords) THEN Some(map[Len(map)].period)
  ELSE time_periodLast(SubSeq(map, 1, Len(map) - 1), text)

RECURSIVE time_period(_, _)
\* the loop over time_map.items(), left at the first period that matches
time_period(map, text) ==
  IF Len(map) = 0 THEN None
  ELSE IF ContainsAny(text, map[1].keywords) THEN Some(map[1].period)
  ELSE time_period(Tail(map), text)

\* the chain with the sum family reduced to 'total'
aggregationTotalOnly(text) ==
  IF Contains(text, AggSumWords[1]) THEN Some("sum")
  ELSE IF ContainsAny(text, AggAverageWords) THEN Some("average")
  ELSE IF ContainsAny(text, AggCountWords) THEN Some("count")
  ELSE IF ContainsAny(text, AggMaxWords) THEN Some("max")
  ELSE IF ContainsAny(text, AggMinWords) THEN Some("min")
  ELSE None

\* the chain with the average family tested before sum and total
aggregationAverageFirst(text) ==
  IF ContainsAny(text, AggAverageWords) THEN Some("average")
  ELSE IF ContainsAny(text, AggSumWords) THEN Some("sum")
  ELSE IF ContainsAny(text, AggCountWords) THEN Some("count")
  ELSE IF ContainsAny(text, AggMaxWords) THEN Some("max")
  ELSE IF ContainsAny(text, AggMinWords) THEN Some("min")
  ELSE None

aggregation(text) ==
  IF ContainsAny(text, AggSumWords) THEN Some("sum")
  ELSE IF ContainsAny(text, AggAverageWords) THEN Some("average")
  ELSE IF ContainsAny(text, AggCountWords) THEN Some("count")
  ELSE IF ContainsAny(text, AggMaxWords) THEN Some("max")
  ELSE IF ContainsAny(text, AggMinWords) THEN Some("min")
  ELSE None

\* the limit without the test for a ranking word
limitAnyPrompt(text) ==
  LET number == FirstNumber(text)
  IN  IF number # None THEN Some(IntOf(number[1], 0)) ELSE None

limit(text) ==
  LET number == FirstNumber(text)
  IN  IF number # None /\ ContainsAny(text, LimitWords)
        THEN Some(IntOf(number[1], 0))
        ELSE None

extract_entities(prompt) ==
  LET prompt_lower == Lower(prompt)
  IN  [metrics |-> Matching(metric_patterns, prompt_lower),
       dimensions |-> Matching(dimension_patterns, prompt_lower),
       time_period |-> time_period(time_map, prompt_lower),
       aggregation |-> aggregation(prompt_lower),
       limit |-> limit(prompt_lower)]

(***************************************************************************)
(* AutoVisualizer                                                          *)
(***************************************************************************)
DomainChartPreferencesTable ==
  << [name |-> "healthcare", primary |-> <<"bar", "line", "pie", "funnel">>,
      avoid |-> <<"treemap">>, colors |-> "Blues",
      metrics_focus |-> <<"patient_count", "diagnosis_rate", "treatment_outcome">>],
     [name |-> "finance", primary |-> <<"waterfall", "line", "bar", "heatmap">>,
      avoid |-> <<"funnel">>, colors |-> "Greens",
      metrics_focus |-> <<"revenue", "profit", "cost", "margin">>],
     [name |-> "hospital", primary |-> <<"bar", "heatmap", "gauge", "line">>,
      avoid |-> <<>>, colors |-> "Teal",
      metrics_focus |-> <<"bed_occupancy", "patient_flow", "department_load">>],
     [name |-> "retail", primary |-> <<"bar", "pie", "line", "treemap">>,
      avoid |-> <<"waterfall">>, colors |-> "Oranges",
      metrics_focus |-> <<"sales", "inventory", "customer_count">>],
     [name |-> "education", primary |-> <<"bar", "line", "histogram", "box">>,
      avoid |-> <<"waterfall">>, colors |-> "Purples",
      metrics_focus |-> <<"enrollment", "grades", "attendance">>],
     [name |-> "hr", primary |-> <<"bar", "pie", "heatmap", "funnel">>,
      avoid |-> <<>>, colors |-> "Blues",
      metrics_focus |-> <<"headcount", "turnover", "salary">>],
     [name |-> "logistics", primary |-> <<"line", "heatmap", "bar", "sankey">>,
      avoid |-> <<"pie">>, colors |-> "Reds",
      metrics_focus |-> <<"delivery_time", "routes", "capacity">>],
     [name |-> "ecommerce", primary |-> <<"funnel", "bar", "line", "treemap">>,
      avoid |-> <<>>, colors |-> "Viridis",
      metrics_focus |-> <<"conversion", "cart_value", "sessions">>] >>

\* the default of self.domain_chart_preferences.get(domain, {...})
DefaultPreference ==
  [name |-> "", primary |-> <<>>, avoid |-> <<>>, colors |-> "Blues",
   metrics_focus |-> <<>>]

PreferenceOf(preferences, domain) ==
  IF \E i \in 1..Len(preferences) : preferences[i].name = domain
    THEN preferences[CHOOSE i \in 1..Len(preferences) : preferences[i].name = domain]
    ELSE DefaultPreference

\* x in list
InList(x, list) == \E i \in 1..Len(list) : list[i] = x

\* data.select_dtypes(include=[dtype]).columns.tolist()
RECURSIVE ColumnsOfDtype(_, _)
ColumnsOfDtype(columns, dtype) ==
  IF Len(columns) = 0 THEN <<>>
  ELSE (IF columns[1].dtype = dtype THEN <<columns[1].name>> ELSE <<>>)
       \o ColumnsOfDtype(Tail(columns), dtype)

\* data.empty: no rows or no columns
IsEmptyFrame(df) == df.nrows = 0 \/ Len(df.columns) = 0

\* what create_chart gives back: a pair (figure, chart_type), or an exception
Return(figure, chart_type) ==
  [raised |-> FALSE, exc |-> "", figure |-> figure, chart_type |-> chart_type]
Raise(exc) ==
  [raised |-> TRUE, exc |-> exc, figure |-> None, chart_type |-> ""]

\* the figure a _create_* method is asked for: its kind, the columns bound
\* to it and the colour scheme (the rendering itself is the plotting library's)
Figure(kind, bound, color_scheme) ==
  Some([kind |-> kind, bound |-> bound, colors |-> color_scheme])

\* x_col of _create_waterfall
WaterfallX(df, x_col) ==
  IF x_col = None \/ ~\E i \in 1..Len(df.columns) : df.columns[i].name = x_col[1]
    THEN df.columns[1].name
    ELSE x_col[1]

\* cols[0] if cols else None
FirstOrNone(cols) == IF Len(cols) > 0 THEN Some(cols[1]) ELSE None

\* the waterfall condition with len(data) < 10
WaterfallRuleFewer(domain, question_lower, df, numeric_cols) ==
  /\ domain = "finance" /\ ContainsAny(question_lower, WaterfallWords)
  /\ df.nrows < 10 /\ Len(numeric_cols) > 0

\* the conditions of the cascade of create_chart, in its order
WaterfallRule(domain, question_lower, df, numeric_cols) ==
  /\ domain = "finance" /\ ContainsAny(question_lower, WaterfallWords)
  /\ df.nrows <= 10 /\ Len(numeric_cols) > 0

\* the funnel condition without the look at the avoid list
FunnelRuleAnyDomain(question_lower, categorical_cols, numeric_cols, domain_pref) ==
  /\ ContainsAny(question_lower, FunnelWords)
  /\ Len(categorical_cols) > 0 /\ Len(numeric_cols) > 0

FunnelRule(question_lower, categorical_cols, numeric_cols, domain_pref) ==
  /\ ContainsAny(question_lower, FunnelWords)
  /\ Len(categorical_cols) > 0 /\ Len(numeric_cols) > 0
  /\ ~InList("funnel", domain_pref.avoid)

TreemapRule(question_lower, categorical_cols, domain_pref) ==
  /\ ContainsAny(question_lower, TreemapWords) /\ Len(categorical_cols) >= 2
  /\ ~InList("treemap", domain_pref.avoid)

DistributionRule(question_lower, numeric_cols) ==
  ContainsAny(question_lower, DistributionWords) /\ Len(numeric_cols) > 0

CorrelationRule(question_lower, numeric_cols) ==
  ContainsAny(question_lower, CorrelationWords) /\ Len(numeric_cols) >= 2

ComparisonRule(question_lower, categorical_cols) ==
  ContainsAny(question_lower, ComparisonWords) /\ Len(categorical_cols) >= 2

TrendRule(date_cols, numeric_cols) == Len(date_cols) > 0 /\ Len(numeric_cols) > 0

PieRule(question_lower, df, categorical_cols, numeric_cols, domain_pref) ==
  /\ ContainsAny(question_lower, PieWords) /\ df.nrows <= 10
  /\ Len(categorical_cols) > 0 /\ Len(numeric_cols) > 0
  /\ ~InList("pie", domain_pref.avoid)

TopBottomRule(intent, question_lower, categorical_cols, numeric_cols) ==
  /\ intent = "top_bottom" \/ ContainsAny(question_lower, TopBottomWords)
  /\ Len(categorical_cols) > 0 /\ Len(numeric_cols) > 0

HeatmapRule(question_lower, categorical_cols, numeric_cols) ==
  /\ ContainsAny(question_lower, HeatmapWords)
  /\ Len(categorical_cols) >= 2 /\ Len(numeric_cols) > 0

\* a DEFAULT branch that gives up on data it cannot chart
DefaultChartOrNone(df, categorical_cols, numeric_cols, color_scheme) ==
  IF df.nrows > 100
    THEN Return(Figure("table", <<>>, ""), "table")
  ELSE IF Len(categorical_cols) > 0 /\ Len(numeric_cols) > 0
    THEN Return(Figure("bar", <<categorical_cols[1], numeric_cols[1]>>,
                       color_scheme), "bar")
  ELSE Return(None, "none")

\* the DEFAULT branch of create_chart
DefaultChart(df, categorical_cols, numeric_cols, color_scheme) ==
  IF df.nrows > 100
    THEN Return(Figure("table", <<>>, ""), "table")
  ELSE IF Len(categorical_cols) > 0 /\ Len(numeric_cols) > 0
    THEN Return(Figure("bar", <<categorical_cols[1], numeric_cols[1]>>, color_scheme), "bar")
  ELSE Return(Figure("table", <<>>, ""), "table")

\* create_chart(data, question, intent, domain); data is None or Some(frame)
create_chart(preferences, data, question, intent, domain) ==
  IF data = None \/ IsEmptyFrame(data[1]) THEN Return(None, "none")
  ELSE
    LET df == data[1]
        domain_pref == PreferenceOf(preferences, domain)
        numeric_cols == ColumnsOfDtype(df.columns, "number")
        categorical_cols == ColumnsOfDtype(df.columns, "object")
        date_cols == ColumnsOfDtype(df.columns, "datetime64")
        question_lower == Lower(question)
        color_scheme == domain_pref.colors
    IN
    IF WaterfallRule(domain, question_lower, df, numeric_cols)
      THEN Return(Figure("waterfall",
                         <<WaterfallX(df, FirstOrNone(categorical_cols)),
                           numeric_cols[1]>>, color_scheme),
                  "waterfall")
    ELSE IF FunnelRule(question_lower, categorical_cols, numeric_cols, domain_pref)
      THEN Return(Figure("funnel", <<categorical_cols[1], numeric_cols[1]>>, color_scheme), "funnel")
    ELSE IF TreemapRule(question_lower, categorical_cols, domain_pref)
      THEN Return(Figure("treemap",
                         <<categorical_cols[1], categorical_cols[2],
                           FirstOrNone(numeric_cols)>>, color_scheme),
                  "treemap")
    ELSE IF DistributionRule(question_lower, numeric_cols)
      THEN IF domain \in {"education", "healthcare"}
             THEN Return(Figure("box", <<numeric_cols[1]>>, color_scheme), "box")
             ELSE Return(Figure("histogram", <<numeric_cols[1]>>, color_scheme), "histogram")
    ELSE IF CorrelationRule(question_lower, numeric_cols)
      THEN Return(Figure("scatter", <<numeric_cols[1], numeric_cols[2]>>, color_scheme), "scatter")
    ELSE IF ComparisonRule(question_lower, categorical_cols)
      THEN IF Len(numeric_cols) = 0
             THEN Raise("IndexError")
             ELSE Return(Figure("grouped_bar",
                                <<categorical_cols[1], categorical_cols[2],
                                  numeric_cols[1]>>, color_scheme),
                         "grouped_bar")
    ELSE IF TrendRule(date_cols, numeric_cols)
      THEN Return(Figure("line", <<date_cols[1], numeric_cols[1]>>, color_scheme), "line")
    ELSE IF PieRule(question_lower, df, categorical_cols, numeric_cols, domain_pref)
      THEN Return(Figure("pie", <<categorical_cols[1], numeric_cols[1]>>, color_scheme), "pie")
    ELSE IF TopBottomRule(intent, question_lower, categorical_cols, numeric_cols)
      THEN Return(Figure("bar", <<categorical_cols[1], numeric_cols[1]>>, color_scheme), "bar")
    ELSE IF HeatmapRule(question_lower, categorical_cols, numeric_cols)
      THEN Return(Figure("heatmap",
                         <<categorical_cols[1], categorical_cols[2],
                           numeric_cols[1]>>, color_scheme),
                  "heatmap")
    ELSE DefaultChart(df, categorical_cols, numeric_cols, color_scheme)


(***************************************************************************)
(* The rows AutoVisualizer._create_bar_chart and _create_pie_chart plot.   *)
(* A row is [label, value]: its entry in the category column and in the    *)
(* numeric column, the value None being a missing number (NaN).            *)
(***************************************************************************)
HasValue(row) == row.value # None

\* row r comes before row s in DataFrame.nlargest (largest), respectively
\* in DataFrame.nsmallest
Before(r, s, largest) ==
  IF largest THEN r.value[1] > s.value[1] ELSE r.value[1] < s.value[1]

\* the rows that have a value (Series.dropna), and the others
Dropped(rows) == SelectSeq(rows, HasValue)
NanRows(rows) == SelectSeq(rows, LAMBDA row : ~HasValue(row))

\* rows without its i-th row
Remove(rows, i) == SubSeq(rows, 1, i - 1) \o SubSeq(rows, i + 1, Len(rows))

RECURSIVE SelectN(_, _, _)
\* the first n rows of the stable sort of rows by Before: of rows that tie, the one that stands first is taken first
\* (keep='first')
SelectN(n, rows, largest) ==
  IF n = 0 \/ Len(rows) = 0 THEN <<>>
  ELSE LET i == CHOOSE k \in 1..Len(rows) :
                  /\ \A j \in 1..Len(rows) : ~Before(rows[j], rows[k], largest)
                  /\ \A j \in 1..(k - 1) : Before(rows[k], rows[j], largest)
       IN  <<rows[i]>> \o SelectN(n - 1, Remove(rows, i), largest)

\* the first n entries of rows
Head_(rows, n) == SubSeq(rows, 1, IF n < Len(rows) THEN n ELSE Len(rows))

\* data.nlargest(n, col) and data.nsmallest(n, col) for 0 < n < len(data),
\* the only calls the two methods make: the n best of the rows that have a
\* value, then rows without a value, in their order, up to n rows
nlargest(n, rows) == Head_(SelectN(n, Dropped(rows), TRUE) \o NanRows(rows), n)
nsmallest(n, rows) == Head_(SelectN(n, Dropped(rows), FALSE) \o NanRows(rows), n)

RECURSIVE SumValues(_)
\* Series.sum(): the missing values are skipped
SumValues(rows) ==
  IF Len(rows) = 0 THEN 0
  ELSE (IF HasValue(rows[1]) THEN rows[1].value[1] ELSE 0) + SumValues(Tail(rows))

\* the bar chart of the first 20 rows as they stand
data_sortedUnsorted(data) == IF Len(data) > 20 THEN Head_(data, 20) ELSE data

\* data_sorted of _create_bar_chart
data_sorted(data) == IF Len(data) > 20 THEN nlargest(20, data) ELSE data

top_data(data) == nlargest(8, data)
others_sum(data) == SumValues(nsmallest(Len(data) - 8, data))
others_row(data) == [label |-> "Others", value |-> Some(others_sum(data))]

\* the data _create_pie_chart plots
pie_data(data) ==
  IF Len(data) > 8 THEN top_data(data) \o <<others_row(data)>> ELSE data

(***************************************************************************)
(* QueryGenerator, ResponseGenerator and FreeLLMManager.  A message, a     *)
(* prompt or a reply is text; where the program only joins pieces of       *)
(* text, a piece may be kept whole as one element of the sequence.         *)
(***************************************************************************)
domain_sql_tips ==
  <<
     [name |-> "healthcare",
      tips |->
        << "Use patient_id for joins with patient tables",
           "Consider HIPAA compliance - don't expose sensitive fields without permission",
           "Common metrics: patient count, diagnosis frequency, treatment outcomes",
           "Date fields often: admission_date, discharge_date, appointment_date" >>],
     [name |-> "finance",
      tips |->
        << "Always use DECIMAL for monetary values, not FLOAT",
           "Common aggregations: SUM(amount), AVG(balance), COUNT(transactions)",
           "Consider currency conversions if multi-currency",
           "Date fields often: transaction_date, payment_date, due_date" >>],
     [name |-> "hospital",
      tips |->
        << "Use bed_id, ward_id for hospital operations",
           "Track admission/discharge dates carefully",
           "Common metrics: bed occupancy, average stay duration, department load",
           "Emergency cases may need priority flagging" >>],
     [name |-> "retail",
      tips |->
        << "Use product_id, customer_id, order_id for relationships",
           "Inventory tracking: stock levels, reorder points",
           "Common metrics: total sales, items sold, average order value",
           "Consider seasonal trends in date filters" >>],
     [name |-> "education",
      tips |->
        << "Use student_id, course_id, teacher_id for relationships",
           "GPA calculations may need weighted averages",
           "Common metrics: enrollment count, average grades, attendance rate",
           "Academic calendars: semesters, terms, academic years" >>],
     [name |-> "hr",
      tips |->
        << "Use employee_id, department_id for relationships",
           "Salary data is sensitive - ensure access control",
           "Common metrics: headcount, average salary, turnover rate",
           "Date fields: hire_date, termination_date, appraisal_date" >>],
     [name |-> "logistics",
      tips |->
        << "Track shipment_id, delivery_id, warehouse_id",
           "Location data: origin, destination, current_location",
           "Common metrics: delivery time, routes efficiency, capacity utilization",
           "Status tracking: pending, in_transit, delivered" >>],
     [name |-> "ecommerce",
      tips |->
        << "Use order_id, product_id, customer_id, cart_id",
           "Track order status: pending, confirmed, shipped, delivered, cancelled",
           "Common metrics: conversion rate, cart abandonment, average order value",
           "Consider user sessions and browsing behavior" >>]
  >>

\* the spelling of the domain names detect_domain can return
DomainText ==
  [healthcare |-> <<"h","e","a","l","t","h","c","a","r","e">>,
   finance |-> <<"f","i","n","a","n","c","e">>,
   hospital |-> <<"h","o","s","p","i","t","a","l">>,
   retail |-> <<"r","e","t","a","i","l">>,
   education |-> <<"e","d","u","c","a","t","i","o","n">>,
   hr |-> <<"h","r">>,
   logistics |-> <<"l","o","g","i","s","t","i","c","s">>,
   ecommerce |-> <<"e","c","o","m","m","e","r","c","e">>,
   general |-> <<"g","e","n","e","r","a","l">>]

\* str.upper() on one character
UpperOf ==
  [c \in {LowerChars[i] : i \in 1..Len(LowerChars)} |->
     UpperChars[CHOOSE i \in 1..Len(LowerChars) : LowerChars[i] = c]]

UpperChar(c) == IF c \in DOMAIN UpperOf THEN UpperOf[c] ELSE c

RECURSIVE Upper(_)
\* str.upper()
Upper(text) ==
  IF Len(text) = 0 THEN <<>>
  ELSE <<UpperChar(Head(text))>> \o Upper(Tail(text))

\* dict.get(key, default) on a dict whose keys are the fields of a record
Get(dict, key, default) == IF key \in DOMAIN dict THEN dict[key] ELSE default

RECURSIVE Decimal(_)
\* str(n) of an integer n >= 0
Decimal(n) ==
  IF n < 10 THEN <<Digits[n + 1]>>
  ELSE Decimal(n \div 10) \o <<Digits[(n % 10) + 1]>>

\* str(v) inside an f-string, of None, of a name or of a number
FormatName(v) == IF v = None THEN <<"None">> ELSE <<v[1]>>
FormatNumber(v) == IF v = None THEN <<"None">> ELSE Decimal(v[1])

RECURSIVE JoinQuoted(_)
JoinQuoted(list) ==
  IF Len(list) = 0 THEN <<>>
  ELSE <<"'">> \o list[1] \o <<"'">>
       \o (IF Len(list) > 1 THEN <<",", " ">> ELSE <<>>) \o JoinQuoted(Tail(list))

\* str(list) of a list of strings
FormatList(list) == <<"[">> \o JoinQuoted(list) \o <<"]">>

RECURSIVE format_schema(_)
\* QueryGenerator._format_schema
format_schema(schema) ==
  IF Len(schema) = 0 THEN <<>>
  ELSE <<"\nTable: ">> \o schema[1].table \o <<"\n", "Columns: ">>
       \o Join(<<",", " ">>, schema[1].columns) \o <<"\n">>
       \o format_schema(Tail(schema))

\* self.domain_sql_tips.get(domain, [])
TipsOf(domain) ==
  IF \E i \in 1..Len(domain_sql_tips) : domain_sql_tips[i].name = domain
    THEN domain_sql_tips[CHOOSE i \in 1..Len(domain_sql_tips) :
                           domain_sql_tips[i].name = domain].tips
    ELSE <<>>

\* QueryGenerator._format_domain_tips
format_domain_tips(tips) ==
  IF Len(tips) = 0 THEN <<"- Use standard SQL best practices">>
  ELSE Join(<<"\n">>, [i \in 1..Len(tips) |-> <<"- ", tips[i]>>])

\* the entries TIME PERIOD, AGGREGATION and LIMIT of the prompt
Context(entities) ==
  [time_period |-> FormatName(Get(entities, "time_period", Some("all"))),
   aggregation |-> FormatName(Get(entities, "aggregation", Some("none"))),
   limit |-> IF "limit" \in DOMAIN entities THEN FormatNumber(entities.limit)
             ELSE <<"none">>]

\* QueryGenerator._build_domain_aware_prompt: the fields the f-string
\* fills in, in its order; the fixed text between them is left out
build_domain_aware_prompt(user_prompt, intent_data, schema, domain) ==
  LET entities == Get(intent_data, "entities", <<>>)
      domain_tips == TipsOf(domain)
  IN  [user_request |-> user_prompt,
       detected_domain |-> Upper(DomainText[domain]),
       intent |-> intent_data.intent,
       metrics |-> FormatList(Get(entities, "metrics", <<>>)),
       dimensions |-> FormatList(Get(entities, "dimensions", <<>>)),
       time_period |-> Context(entities).time_period,
       aggregation |-> Context(entities).aggregation,
       limit |-> Context(entities).limit,
       schema |-> format_schema(schema),
       guidelines_for |-> DomainText[domain],
       guidelines |-> format_domain_tips(domain_tips)]

\* what a call gives back: a value, or an exception with its message
Returned(value) == [raised |-> FALSE, message |-> <<>>, value |-> value]
Raised(message) == [raised |-> TRUE, message |-> message, value |-> None]

\* FreeLLMManager.generate: the reply of the service, or its failure
\* wrapped in a new exception
llm_generate(reply) ==
  IF reply.fails THEN Raised(<<"LLM generation failed: ">> \o reply.message)
  ELSE Returned(reply.content)

RECURSIVE RemoveAll(_, _)
\* text.replace(pattern, "")
RemoveAll(text, pattern) ==
  IF Len(text) < Len(pattern) THEN text
  ELSE IF SubSeq(text, 1, Len(pattern)) = pattern
    THEN RemoveAll(SubSeq(text, Len(pattern) + 1, Len(text)), pattern)
  ELSE <<Head(text)>> \o RemoveAll(Tail(text), pattern)

Whitespace == {" ", "\n", "\t", "\r"}

RECURSIVE LStrip(_, _)
LStrip(text, chars) ==
  IF Len(text) > 0 /\ Head(text) \in chars THEN LStrip(Tail(text), chars) ELSE text

RECURSIVE RStrip(_, _)
\* text.rstrip(chars)
RStrip(text, chars) ==
  IF Len(text) > 0 /\ text[Len(text)] \in chars
    THEN RStrip(SubSeq(text, 1, Len(text) - 1), chars)
    ELSE text

\* text.strip()
Strip(text) == RStrip(LStrip(text, Whitespace), Whitespace)

\* text.find(pattern) + 1, for a pattern that occurs in text
Find(text, pattern) ==
  CHOOSE i \in 1..Len(text) :
    /\ SubSeq(text, i, i + Len(pattern) - 1) = pattern
    /\ \A j \in 1..(i - 1) : SubSeq(text, j, j + Len(pattern) - 1) # pattern

\* the grave accent, which a string of this language cannot hold
Backtick == "<grave accent>"
Fence == <<Backtick, Backtick, Backtick>>
Select == <<"S","E","L","E","C","T">>

\* QueryGenerator._clean_sql
clean_sql(reply) ==
  LET unfenced == RemoveAll(RemoveAll(reply, Fence \o <<"s","q","l">>), Fence)
      stripped == Strip(unfenced)
      sql_upper == Upper(stripped)
      from_select ==
        IF Contains(sql_upper, Select)
          THEN SubSeq(stripped, Find(sql_upper, Select), Len(stripped))
          ELSE stripped
  IN  RStrip(from_select, {";"})

\* the messages QueryGenerator.generate_sql sends
sql_messages(user_prompt, intent_data, schema) ==
  LET domain == Get(intent_data, "domain", "general")
  IN  [system |-> <<"You are a SQL expert specializing in ", domain, " databases.">>,
       user |-> build_domain_aware_prompt(user_prompt, intent_data, schema, domain)]

\* QueryGenerator.generate_sql, service being what the language model
\* answers to the requests of this call
generate_sql(user_prompt, intent_data, schema, service) ==
  LET sql == llm_generate(service.sql_reply)
  IN  IF sql.raised THEN sql ELSE Returned(clean_sql(sql.value))

\* ResponseGenerator.generate
generate_response(user_prompt, query_results, intent_data, service) ==
  llm_generate(service.response_reply)

(***************************************************************************)
(* ChatbotAgent.process.  A call is [user_prompt, database_schema,         *)
(* execute_query, service]: its three arguments and what the services      *)
(* outside the program do during the call (the texts the embedding model   *)
(* fails on, the replies of the language model).  The callback             *)
(* execute_query is None, or what it does when called: [raises, message,   *)
(* result].  A frame holds the local variables of one call and the step    *)
(* it has reached.                                                         *)
(***************************************************************************)
EncoderFailure == <<"embedding model unavailable">>
NoEmptyAttribute == <<"'list' object has no attribute 'empty'">>
IndexOutOfRange == <<"list index out of range">>

\* self.intent_classifier.detect_domain, classify: the embedding model may
\* fail on the text it is given first
detect_domain_call(self, call) ==
  IF schema_to_text(call.database_schema) \in call.service.broken
    THEN Raised(EncoderFailure)
    ELSE Returned(detect_domain(self.domain_signatures, self.model,
                                call.database_schema))

classify_call(self, call) ==
  IF Lower(call.user_prompt) \in call.service.broken
    THEN Raised(EncoderFailure)
    ELSE Returned(classify(self.intents, self.model, call.user_prompt))

InitialFrame(call) ==
  [step |-> "detect_domain", call |-> call,
   detected_domain |-> None, domain_confidence |-> None,
   all_domain_scores |-> None, intent_data |-> None,
   generated_query |-> None, query_results |-> None,
   response_text |-> None, visualization |-> None, chart_type |-> None,
   calls |-> <<>>, result |-> None]

\* the component the step calls, added to the calls made so far
Called(frame, name, input) ==
  Append(frame.calls, [name |-> name, input |-> input])

\* the result of the except clause at the end of process with the domain
\* 'general'
FailureGeneral(message) ==
  [success |-> FALSE, domain |-> "general", error |-> message,
   response |->
     <<"I encountered an error while processing your request: ">> \o message]

\* the result of the except clause at the end of process
Failure(message) ==
  [success |-> FALSE, domain |-> "unknown", error |-> message,
   response |->
     <<"I encountered an error while processing your request: ">> \o message]

\* the result for a callback that raises, with the domain of the except
\* clause at the end of process
ExecutionFailureUnknown(frame, message) ==
  [success |-> FALSE,
   domain |-> "unknown",
   domain_confidence |-> frame.domain_confidence[1],
   intent |-> frame.intent_data[1],
   generated_query |-> frame.generated_query[1],
   query_results |-> None,
   visualization |-> None,
   chart_type |-> "none",
   error |-> <<"Query execution failed: ">> \o message,
   response |->
     <<"I generated a SQL query but couldn't execute it: ">> \o message]

\* the result returned when execute_query raises
ExecutionFailure(frame, message) ==
  [success |-> FALSE,
   domain |-> frame.detected_domain[1],
   domain_confidence |-> frame.domain_confidence[1],
   intent |-> frame.intent_data[1],
   generated_query |-> frame.generated_query[1],
   query_results |-> None,
   visualization |-> None,
   chart_type |-> "none",
   error |-> <<"Query execution failed: ">> \o message,
   response |->
     <<"I generated a SQL query but couldn't execute it: ">> \o message]

\* the result of a complete run
Success(frame) ==
  [success |-> TRUE,
   domain |-> frame.detected_domain[1],
   domain_confidence |-> frame.domain_confidence[1],
   all_domain_scores |-> frame.all_domain_scores[1],
   intent |-> frame.intent_data[1],
   generated_query |-> frame.generated_query[1],
   query_results |-> frame.query_results,
   response |-> frame.response_text[1],
   visualization |-> frame.visualization,
   chart_type |-> frame.chart_type[1]]

Finish(frame, calls, result) ==
  [frame EXCEPT !.step = "done", !.calls = calls, !.result = Some(result)]

\* STEP 0: detect_domain
DetectStep(self, frame) ==
  LET outcome == detect_domain_call(self, frame.call)
      calls == Called(frame, "detect_domain", <<>>)
  IN  IF outcome.raised THEN Finish(frame, calls, Failure(outcome.message))
      ELSE [frame EXCEPT !.step = "classify", !.calls = calls,
                         !.detected_domain = Some(outcome.value[1]),
                         !.domain_confidence = Some(outcome.value[2]),
                         !.all_domain_scores = Some(outcome.value[3])]

\* Step 1, first call: classify
ClassifyStep(self, frame) ==
  LET outcome == classify_call(self, frame.call)
      calls == Called(frame, "classify", <<>>)
  IN  IF outcome.raised THEN Finish(frame, calls, Failure(outcome.message))
      ELSE [frame EXCEPT !.step = "extract_entities", !.calls = calls,
                         !.intent_data = Some(outcome.value)]

\* the domain the run gives to the later steps
DomainOf(frame) == frame.detected_domain[1]

\* Step 1, second call: extract_entities, and the entries added to
\* intent_data
ExtractStep(self, frame) ==
  LET entities == extract_entities(frame.call.user_prompt)
      classified == frame.intent_data[1]
  IN  [frame EXCEPT
         !.step = "generate_sql",
         !.calls = Called(frame, "extract_entities", <<>>),
         !.intent_data =
           Some([intent |-> classified.intent,
                 confidence |-> classified.confidence,
                 all_scores |-> classified.all_scores,
                 entities |-> entities,
                 domain |-> DomainOf(frame),
                 domain_confidence |-> frame.domain_confidence[1],
                 all_domain_scores |-> frame.all_domain_scores[1]])]

\* Step 2: generate_sql
GenerateSqlStep(self, frame) ==
  LET outcome == generate_sql(frame.call.user_prompt, frame.intent_data[1],
                              frame.call.database_schema, frame.call.service)
      calls == Called(frame, "generate_sql",
                      sql_messages(frame.call.user_prompt, frame.intent_data[1],
                                   frame.call.database_schema))
  IN  IF outcome.raised THEN Finish(frame, calls, Failure(outcome.message))
      ELSE [frame EXCEPT
              !.step = IF frame.call.execute_query # None
                         THEN "execute_query" ELSE "generate_response",
              !.calls = calls,
              !.generated_query = Some(outcome.value)]

\* the callback given the reply of the language model as it came
ExecuteStepRawReply(self, frame) ==
  LET callback == frame.call.execute_query[1]
      calls == Called(frame, "execute_query", frame.call.service.sql_reply.content)
  IN  IF callback.raises
        THEN Finish(frame, calls, ExecutionFailure(frame, callback.message))
        ELSE [frame EXCEPT !.step = "generate_response", !.calls = calls,
                           !.query_results = callback.result]

\* Step 3: execute_query, when a callback is given
ExecuteStep(self, frame) ==
  LET callback == frame.call.execute_query[1]
      calls == Called(frame, "execute_query", frame.generated_query[1])
  IN  IF callback.raises
        THEN Finish(frame, calls, ExecutionFailure(frame, callback.message))
        ELSE [frame EXCEPT !.step = "generate_response", !.calls = calls,
                           !.query_results = callback.result]

\* Step 4: response_generator.generate
ResponseStep(self, frame) ==
  LET outcome == generate_response(frame.call.user_prompt, frame.query_results,
                                   frame.intent_data[1], frame.call.service)
      calls == Called(frame, "generate_response", <<>>)
  IN  IF outcome.raised THEN Finish(frame, calls, Failure(outcome.message))
      ELSE [frame EXCEPT !.step = "create_chart", !.calls = calls,
                         !.response_text = Some(outcome.value)]

\* create_chart called whatever the results are
ChartStepUnguarded(self, frame) ==
  LET outcome == create_chart(self.domain_chart_preferences,
                              IF frame.query_results = None THEN None
                              ELSE Some(frame.query_results[1].df),
                              frame.call.user_prompt,
                              frame.intent_data[1].intent, DomainOf(frame))
      calls == Called(frame, "create_chart", <<>>)
  IN  IF outcome.raised THEN Finish(frame, calls, Failure(IndexOutOfRange))
      ELSE [frame EXCEPT !.step = "return", !.calls = calls,
                         !.visualization = outcome.figure,
                         !.chart_type = Some(outcome.chart_type)]

\* Step 5: create_chart, when the results are not None and not empty; a
\* result that is no DataFrame has no attribute empty
ChartStep(self, frame) ==
  IF frame.query_results = None
    THEN [frame EXCEPT !.step = "return", !.chart_type = Some("none")]
  ELSE IF frame.query_results[1].type # "DataFrame"
    THEN Finish(frame, frame.calls, Failure(NoEmptyAttribute))
  ELSE IF IsEmptyFrame(frame.query_results[1].df)
    THEN [frame EXCEPT !.step = "return", !.chart_type = Some("none")]
  ELSE
    LET outcome == create_chart(self.domain_chart_preferences,
                                Some(frame.query_results[1].df),
                                frame.call.user_prompt,
                                frame.intent_data[1].intent, DomainOf(frame))
        calls == Called(frame, "create_chart", <<>>)
    IN  IF outcome.raised THEN Finish(frame, calls, Failure(IndexOutOfRange))
        ELSE [frame EXCEPT !.step = "return", !.calls = calls,
                           !.visualization = outcome.figure,
                           !.chart_type = Some(outcome.chart_type)]

\* the return of the complete result
ReturnStep(self, frame) == Finish(frame, frame.calls, Success(frame))

\* the next step of a call that is under way
Advance(self, frame) ==
  CASE frame.step = "detect_domain" -> DetectStep(self, frame)
    [] frame.step = "classify" -> ClassifyStep(self, frame)
    [] frame.step = "extract_entities" -> ExtractStep(self, frame)
    [] frame.step = "generate_sql" -> GenerateSqlStep(self, frame)
    [] frame.step = "execute_query" -> ExecuteStep(self, frame)
    [] frame.step = "generate_response" -> ResponseStep(self, frame)
    [] frame.step = "create_chart" -> ChartStep(self, frame)
    [] frame.step = "return" -> ReturnStep(self, frame)

RECURSIVE Run(_, _)
\* a call run to its end
Run(self, frame) ==
  IF frame.step = "done" THEN frame ELSE Run(self, Advance(self, frame))

\* ChatbotAgent.process: the frame of the call at its return
process(self, call) == Run(self, InitialFrame(call))
(***************************************************************************)
(* Inputs                                                                  *)
(***************************************************************************)
E1 == <<1, 0, 0>>
E2 == <<0, 1, 0>>
E3 == <<0, 0, 1>>
NegE1 == <<-1, 0, 0>>
Mixed == <<2, 3, 6>>
ZeroVec == <<0, 0, 0>>

\* vectors the provider may give a domain description or an intent text
SignatureVecs == {E1, E2, E3, ZeroVec}
\* vectors the provider may give a schema text or a prompt
QueryVecs == {E1, NegE1, Mixed, ZeroVec}

\* how many of the leading entries of a table get every vector of
\* SignatureVecs; the entries after them get E1
NumVaried == 3

SchemaExample ==
  << [table |-> <<"p","a","t","i","e","n","t","s">>,
      columns |-> << <<"i","d">>, <<"d","i","a","g","n","o","s","i","s">>,
                     <<"a","d","m","i","s","s","i","o","n","_","d","a","t","e">> >>],
     [table |-> <<"d","o","c","t","o","r","s">>,
      columns |-> << <<"i","d">>, <<"s","p","e","c","i","a","l","t","y">> >> ] >>

SchemaOrders ==
  << [table |-> <<"O","r","d","e","r","s">>,
      columns |-> << <<"P","r","i","c","e">>, <<"Q","u","a","n","t","i","t","y">> >>] >>

SchemaPlain ==
  << [table |-> <<"t">>, columns |-> << <<"a">> >>] >>

SchemaLedger ==
  << [table |-> <<"l","e","d","g","e","r">>,
      columns |-> << <<"l","o","a","n">>, <<"b","u","d","g","e","t">> >>],
     [table |-> <<"w","a","r","d">>, columns |-> <<>>] >>

Schemas == {<<>>, SchemaExample, SchemaOrders, SchemaPlain, SchemaLedger}

PromptTop5 == <<"T","o","p"," ","5"," ","p","r","o","d","u","c","t","s">>
PromptShow5 == <<"s","h","o","w"," ","5"," ","p","r","o","d","u","c","t","s">>
PromptTotalAverage == <<"t","o","t","a","l"," ","a","v","e","r","a","g","e">>
PromptLastYear ==
  <<"l","o","w","e","s","t"," ","c","o","s","t"," ","l","a","s","t"," ","y","e","a","r",
    " ","i","n"," ","2","0","2","4">>

Prompts == {<<>>, PromptTop5, PromptShow5, PromptTotalAverage, PromptLastYear}

SignatureTexts ==
  {DomainSignaturesTable[i].description : i \in 1..Len(DomainSignaturesTable)}
IntentTexts ==
  {Join(Space, IntentsTable[i].keywords) : i \in 1..Len(IntentsTable)}

VariedSignatureTexts ==
  {DomainSignaturesTable[i].description :
     i \in 1..Len(DomainSignaturesTable) \cap 1..NumVaried}
VariedIntentTexts ==
  {Join(Space, IntentsTable[i].keywords) :
     i \in 1..Len(IntentsTable) \cap 1..NumVaried}

\* the provider that gives the texts of varied the vectors of f, the other
\* signature and intent texts E1, and the remaining texts those of rest
Provider(varied, f, rest) ==
  [known |-> [t \in SignatureTexts \cup IntentTexts |->
                IF t \in varied THEN f[t] ELSE E1],
   rest |-> rest]

\* providers that tell the leading domain descriptions apart
DetectProviders ==
  {Provider(VariedSignatureTexts, f, <<q>>) :
     f \in [VariedSignatureTexts -> SignatureVecs], q \in QueryVecs}

\* providers that tell the leading intent texts apart
ClassifyProviders ==
  {Provider(VariedIntentTexts, f, <<q>>) :
     f \in [VariedIntentTexts -> SignatureVecs], q \in QueryVecs}

\* providers that give texts of even and of odd length different vectors
SessionProviders ==
  {Provider({}, <<>>, <<q0, q1>>) : q0 \in {E1, Mixed}, q1 \in {E2, ZeroVec}}

\* the provider that gives every text the same vector
PlainProvider == [known |-> <<>>, rest |-> <<E1>>]

SessionSchemas == {<<>>, SchemaExample, SchemaOrders}
SessionPrompts == {<<>>, PromptTop5, PromptTotalAverage}

\* result sets given to create_chart
CategoricalNames == <<"category", "region", "segment", "channel">>
NumericNames == <<"amount", "quantity", "price", "cost">>
DateNames == <<"order_date", "ship_date">>
OtherNames == <<"is_active">>

\* most columns of one dtype in a result set
MaxCols == 2

Named(names, count, dtype) ==
  [i \in 1..count |-> [name |-> names[i], dtype |-> dtype]]

Frame(nrows, nother, ncat, nnum, ndate) ==
  [nrows |-> nrows,
   columns |-> Named(OtherNames, nother, "bool")
               \o Named(CategoricalNames, ncat, "object")
               \o Named(NumericNames, nnum, "number")
               \o Named(DateNames, ndate, "datetime64")]

RowCounts == {0, 10, 11, 100, 101}

Frames ==
  {Frame(nrows, nother, ncat, nnum, ndate) :
     nrows \in RowCounts, nother \in 0..1, ncat \in 0..MaxCols,
     nnum \in 0..MaxCols, ndate \in 0..1}

ChartWords ==
  << <<"p","r","o","f","i","t">>, <<"f","u","n","n","e","l">>,
     <<"b","r","e","a","k","d","o","w","n">>,
     <<"d","i","s","t","r","i","b","u","t","i","o","n">>, <<"v","s">>,
     <<"c","o","m","p","a","r","e">>, <<"s","h","a","r","e">>, <<"T","o","p">>,
     <<"h","e","a","t","m","a","p">>, <<"l","a","p","t","o","p">> >>

\* the empty question and every question of two of the words
Questions ==
  {<<>>} \cup {Join(Space, <<ChartWords[p[1]], ChartWords[p[2]]>>) :
                 p \in {q \in (1..Len(ChartWords)) \X (1..Len(ChartWords)) :
                          q[1] <= q[2]}}

ChartDomains ==
  {DomainChartPreferencesTable[i].name :
     i \in 1..Len(DomainChartPreferencesTable)} \cup {"general"}

ChartIntents == {"top_bottom", "query_data"}

ChartCalls ==
  [data : {None} \cup {Some(f) : f \in Frames}, question : Questions,
   intent : ChartIntents, domain : ChartDomains]

(***************************************************************************)
(* Initial states and operations                                           *)
(***************************************************************************)
InitTables ==
  /\ intents = IntentsTable
  /\ domain_signatures = DomainSignaturesTable
  /\ domain_chart_preferences = DomainChartPreferencesTable
  /\ op = "init"
  /\ ret = None
  /\ seen = None
  /\ locals = <<>>

InitIdle == InitTables /\ pc = "idle" /\ arg = None

\* the call a step makes, as seen keeps it
ThisCall == [op |-> op', arg |-> arg', ret |-> ret']

DetectDomainOf(schema) ==
  /\ pc = "idle"
  /\ op' = "detect_domain"
  /\ arg' = schema
  /\ ret' = detect_domain(domain_signatures, model, schema)
  /\ UNCHANGED <<statics, pc, locals>>

ClassifyOf(prompt) ==
  /\ pc = "idle"
  /\ op' = "classify"
  /\ arg' = prompt
  /\ ret' = classify(intents, model, prompt)
  /\ UNCHANGED <<statics, pc, locals>>

ExtractEntitiesOf(prompt) ==
  /\ pc = "idle"
  /\ op' = "extract_entities"
  /\ arg' = prompt
  /\ ret' = extract_entities(prompt)
  /\ UNCHANGED <<statics, pc, locals>>

\* detect_domain on any schema
InitDetect == InitIdle /\ model \in DetectProviders
DetectDomain == \E schema \in Schemas : DetectDomainOf(schema) /\ UNCHANGED seen
NextDetect == DetectDomain
SpecDetect == InitDetect /\ [][NextDetect]_vars

\* classify on any prompt
InitClassify == InitIdle /\ model \in ClassifyProviders
Classify == \E prompt \in Prompts : ClassifyOf(prompt) /\ UNCHANGED seen
NextClassify == Classify
SpecClassify == InitClassify /\ [][NextClassify]_vars

\* any sequence of calls of the classifier's operations; a call may be kept
\* in seen
InitSession == InitIdle /\ model \in SessionProviders
Remember == seen' \in {seen, Some(ThisCall)}
SessionDetectDomain ==
  \E schema \in SessionSchemas : DetectDomainOf(schema) /\ Remember
SessionClassify ==
  \E prompt \in SessionPrompts : ClassifyOf(prompt) /\ Remember
SessionExtractEntities ==
  \E prompt \in SessionPrompts : ExtractEntitiesOf(prompt) /\ Remember
NextSession == SessionDetectDomain \/ SessionClassify \/ SessionExtractEntities
SpecSession == InitSession /\ [][NextSession]_vars

\* one call of create_chart, with its arguments drawn at the start
InitChart ==
  /\ InitTables /\ model = PlainProvider
  /\ pc = "create_chart"
  /\ arg \in ChartCalls

CreateChart ==
  /\ pc = "create_chart"
  /\ pc' = "idle"
  /\ op' = "create_chart"
  /\ ret' = create_chart(domain_chart_preferences, arg.data, arg.question,
                         arg.intent, arg.domain)
  /\ UNCHANGED <<statics, arg, seen, locals>>
NextChart == CreateChart
SpecChart == InitChart /\ [][NextChart]_vars


(***************************************************************************)
(* extract_entities on prompts of a few words                              *)
(***************************************************************************)
\* words of prompts: aggregation and ranking words, trigger phrases of
\* periods, numbers alone, inside a word and after a sign, metric and
\* dimension keywords
EntityWords ==
  << <<"t","o","t","a","l">>, <<"a","v","e","r","a","g","e">>,
     <<"a","v","g">>, <<"c","o","u","n","t">>,
     <<"m","a","x","i","m","u","m">>, <<"l","o","w","e","s","t">>,
     <<"s","u","m","m","a","r","y">>, <<"T","o","p">>,
     <<"l","a","s","t"," ","m","o","n","t","h">>,
     <<"t","h","i","s"," ","y","e","a","r">>,
     <<"p","r","e","v","i","o","u","s"," ","w","e","e","k">>,
     <<"l","a","s","t">>, <<"5">>, <<"1","2">>, <<"x","5">>, <<"-","3">>,
     <<"p","r","o","d","u","c","t">>, <<"r","e","g","i","o","n">>,
     <<"r","e","v","e","n","u","e">>, <<"m","e","a","n">>, <<"m","i","n">>,
     <<"s","h","o","w">>, <<"l","a","s","t"," ","y","e","a","r">> >>

\* most words of a prompt
MaxWords == 2

RECURSIVE WordLists(_)
\* the sequences of n indices of EntityWords
WordLists(n) ==
  IF n = 0 THEN {<<>>}
  ELSE {<<i>> \o rest : i \in 1..Len(EntityWords), rest \in WordLists(n - 1)}

PromptOf(indices) ==
  Join(Space, [k \in 1..Len(indices) |-> EntityWords[indices[k]]])

EntityPrompts ==
  {PromptOf(indices) : indices \in UNION {WordLists(n) : n \in 0..MaxWords}}

\* one call of extract_entities, with its argument drawn at the start
InitEntities ==
  /\ InitTables /\ model = PlainProvider
  /\ pc = "extract_entities"
  /\ arg \in EntityPrompts

ExtractEntities ==
  /\ pc = "extract_entities"
  /\ pc' = "idle"
  /\ op' = "extract_entities"
  /\ ret' = extract_entities(arg)
  /\ UNCHANGED <<statics, arg, seen, locals>>
NextEntities == ExtractEntities
SpecEntities == InitEntities /\ [][NextEntities]_vars

(***************************************************************************)
(* _create_bar_chart and _create_pie_chart on result sets of up to 25 rows *)
(***************************************************************************)
RowLabels ==
  <<"r01", "r02", "r03", "r04", "r05", "r06", "r07", "r08", "r09", "r10",
    "r11", "r12", "r13", "r14", "r15", "r16", "r17", "r18", "r19", "r20",
    "r21", "r22", "r23", "r24", "r25">>

RowLengths == {1, 8, 9, 10, 12, 20, 21, 25}

\* the values of a column run through 0..modulus-1 in steps of at most
\* MaxStep, lowered by at most MaxShift
MaxStep == 3
MaxShift == 1
Moduli == {3, 5, 13}
\* every k-th row lacks its value; 0 for no row
Gaps == {0, 1, 2, 9}

Rows(n, step, shift, modulus, gap) ==
  [i \in 1..n |->
     [label |-> RowLabels[i],
      value |-> IF gap > 0 /\ i % gap = 0 THEN None
                ELSE Some(((step * i) % modulus) - shift)]]

ResultSets ==
  {Rows(n, step, shift, modulus, gap) :
     n \in RowLengths, step \in 0..MaxStep, shift \in 0..MaxShift,
     modulus \in Moduli, gap \in Gaps}

InitFigure ==
  /\ InitTables /\ model = PlainProvider
  /\ pc = "figure"
  /\ arg \in ResultSets

CreateBarChart ==
  /\ pc = "figure"
  /\ pc' = "idle"
  /\ op' = "_create_bar_chart"
  /\ ret' = data_sorted(arg)
  /\ UNCHANGED <<statics, arg, seen, locals>>

CreatePieChart ==
  /\ pc = "figure"
  /\ pc' = "idle"
  /\ op' = "_create_pie_chart"
  /\ ret' = pie_data(arg)
  /\ UNCHANGED <<statics, arg, seen, locals>>

NextFigure == CreateBarChart \/ CreatePieChart
SpecFigure == InitFigure /\ [][NextFigure]_vars

(***************************************************************************)
(* Calls of ChatbotAgent.process                                           *)
(***************************************************************************)
PromptCompare ==
  <<"c","o","m","p","a","r","e"," ","r","e","g","i","o","n","s">>

ProcessPrompts == {PromptTop5, PromptTotalAverage, PromptCompare}
ProcessSchemas == {SchemaExample, SchemaOrders}

\* a provider for which every schema and prompt is far from every
\* description
FarProvider == Provider({}, <<>>, <<Mixed>>)
ProcessProviders == {PlainProvider, FarProvider}

\* replies of the language model
Reply(content) == [fails |-> FALSE, message |-> <<>>, content |-> content]
NoReply(message) == [fails |-> TRUE, message |-> message, content |-> <<>>]

SqlPlain == <<"S","E","L","E","C","T"," ","1",";">>
SqlFenced ==
  Fence \o <<"s","q","l","\n","H","e","r","e",":"," ","s","e","l","e","c","t",
             " ","a"," ","f","r","o","m"," ","t",";","\n">> \o Fence

SqlReplies == {Reply(SqlPlain), Reply(SqlFenced), NoReply(<<"rate limit reached">>)}
ResponseReplies == {Reply(<<"Sales rose.">>), NoReply(<<"rate limit reached">>)}

\* what the callback does
Raising(message) == [raises |-> TRUE, message |-> message, result |-> None]
Returning(result) == [raises |-> FALSE, message |-> <<>>, result |-> result]
DataFrameOf(df) == Some([type |-> "DataFrame", df |-> df])
ListResult == Some([type |-> "list", df |-> Frame(0, 0, 0, 0, 0)])

Callbacks ==
  {None, Some(Raising(<<"no such table: t">>)), Some(Returning(None)),
   Some(Returning(ListResult)),
   Some(Returning(DataFrameOf(Frame(0, 0, 1, 1, 0)))),
   Some(Returning(DataFrameOf(Frame(10, 0, 1, 1, 0)))),
   Some(Returning(DataFrameOf(Frame(10, 0, 2, 0, 0))))}

\* the embedding model works, fails on the schema text, or on the prompt
BrokenTexts(prompt, schema) ==
  {{}, {schema_to_text(schema)}, {Lower(prompt)}}

ProcessCalls ==
  UNION {[user_prompt : {prompt}, database_schema : {schema},
          execute_query : Callbacks,
          service : [broken : BrokenTexts(prompt, schema),
                     sql_reply : SqlReplies,
                     response_reply : ResponseReplies]] :
           prompt \in ProcessPrompts, schema \in ProcessSchemas}

\* the agent as the steps of process see it
Self ==
  [intents |-> intents, domain_signatures |-> domain_signatures,
   model |-> model, domain_chart_preferences |-> domain_chart_preferences]

\* one call of process, with its arguments drawn at the start; at its
\* return locals keeps the frame of the call
InitProcess ==
  /\ InitTables /\ model \in ProcessProviders
  /\ pc = "process"
  /\ arg \in ProcessCalls

Process ==
  /\ pc = "process"
  /\ pc' = "idle"
  /\ op' = "process"
  /\ locals' = <<process(Self, arg)>>
  /\ ret' = locals'[1].result[1]
  /\ UNCHANGED <<statics, arg, seen>>
NextProcess == Process
SpecProcess == InitProcess /\ [][NextProcess]_vars

\* two calls of process on the same agent with different inputs, their
\* steps interleaved in every way; seen keeps the frame each call ends with
\* when it runs alone
Threads == {1, 2}

Call(prompt, schema, callback, sql_reply) ==
  [user_prompt |-> prompt, database_schema |-> schema,
   execute_query |-> callback,
   service |-> [broken |-> {}, sql_reply |-> sql_reply,
                response_reply |-> Reply(<<"Sales rose.">>)]]

ConcurrentCalls ==
  {Call(PromptTop5, SchemaExample,
        Some(Returning(DataFrameOf(Frame(10, 0, 1, 1, 0)))), Reply(SqlPlain)),
   Call(PromptTotalAverage, SchemaOrders, None, Reply(SqlFenced)),
   Call(PromptCompare, SchemaOrders,
        Some(Returning(DataFrameOf(Frame(10, 0, 2, 0, 0)))), Reply(SqlPlain)),
   Call(PromptTop5, SchemaOrders, Some(Raising(<<"no such table: t">>)),
        Reply(SqlFenced)),
   Call(PromptCompare, SchemaExample, Some(Returning(None)),
        NoReply(<<"rate limit reached">>)),
   Call(PromptTotalAverage, SchemaExample,
        Some(Returning(DataFrameOf(Frame(10, 0, 1, 1, 0)))), Reply(SqlFenced))}

InitConcurrent ==
  /\ intents = IntentsTable
  /\ domain_signatures = DomainSignaturesTable
  /\ domain_chart_preferences = DomainChartPreferencesTable
  /\ model \in ProcessProviders
  /\ op = "init" /\ ret = None
  /\ pc = "process"
  /\ arg \in {calls \in [Threads -> ConcurrentCalls] : calls[1] # calls[2]}
  /\ locals = [t \in Threads |-> InitialFrame(arg[t])]
  /\ seen = [t \in Threads |-> process(Self, arg[t])]

\* the local variables of thread t with the domain another call has
\* detected, as an attribute of the agent that every call writes would
\* give them
FrameSharingDomain(t) ==
  LET others == {u \in Threads \ {t} : locals[u].detected_domain # None}
  IN  IF others = {} \/ locals[t].detected_domain = None THEN locals[t]
      ELSE [locals[t] EXCEPT
              !.detected_domain = locals[CHOOSE u \in others : TRUE].detected_domain]

\* the local variables of thread t
FrameOf(t) == locals[t]

\* thread t takes the next step of its call
ProcessStep(t) ==
  /\ pc = "process"
  /\ locals[t].step # "done"
  /\ locals' = [locals EXCEPT ![t] = Advance(Self, FrameOf(t))]
  /\ op' = "process"
  /\ ret' = [u \in Threads |-> locals'[u].result]
  /\ UNCHANGED <<statics, pc, arg, seen>>
NextConcurrent == \E t \in Threads : ProcessStep(t)
SpecConcurrent == InitConcurrent /\ [][NextConcurrent]_vars
(***************************************************************************)
(* The calls of the embedding provider during detect_domain                *)
(***************************************************************************)
\* detect_domain on any schema, any number of times; seen keeps the texts
\* the provider was called with during the call, and how many there were
\* during the call before it
DetectDomainEncoding ==
  \E schema \in Schemas :
    /\ DetectDomainOf(schema)
    /\ seen' = Some([encoded |-> encoded_texts(domain_signatures,
                                               schema_to_text(schema)),
                     earlier |-> IF seen = None THEN None
                                 ELSE Some(Len(seen[1].encoded))])
NextEncode == DetectDomainEncoding
SpecEncode == InitDetect /\ [][NextEncode]_vars

(***************************************************************************)
(* ChatbotAgent.analyze_schema and get_supported_domains                   *)
(***************************************************************************)
StrongMatch == Rat(7, 10)
ModerateMatch == Rat(4, 10)

RECURSIVE SumOfLengths(_)
\* sum(len(cols) for cols in database_schema.values())
SumOfLengths(schema) ==
  IF Len(schema) = 0 THEN 0
  ELSE Len(schema[1].columns) + SumOfLengths(Tail(schema))

\* dict without its i-th entry
WithoutEntry(dict, i) == SubSeq(dict, 1, i - 1) \o SubSeq(dict, i + 1, Len(dict))

RECURSIVE sorted_reverse(_)
\* sorted(all_scores, key=all_scores.get, reverse=True) for scores that are
\* numbers: the keys by descending score, keys of equal score in the order
\* of the dict
sorted_reverse(scores) ==
  IF Len(scores) = 0 THEN <<>>
  ELSE LET i == MaxIndex(DictValues(scores), 2, 1)
       IN  <<scores[i].k>> \o sorted_reverse(WithoutEntry(scores, i))

\* the recommendation of analyze_schema, as the pieces of its text
recommendation(detected_domain, confidence, all_scores) ==
  IF FGt(confidence, StrongMatch)
    THEN <<"Strong match! This appears to be a ", detected_domain, " database.">>
  ELSE IF FGt(confidence, ModerateMatch)
    THEN <<"  Moderate match. Likely a ", detected_domain,
           " database, but consider adding domain-specific tables/columns.">>
  ELSE <<" Low confidence. Schema appears generic. Top candidates: ",
         SubSeq(sorted_reverse(all_scores), 1, 3)>>

\* the dict analyze_schema returns, detected being the triple its call of
\* detect_domain has returned
analysis(detected, database_schema) ==
  [detected_domain |-> detected[1],
   confidence |-> detected[2],
   all_scores |-> detected[3],
   tables |-> [i \in 1..Len(database_schema) |-> database_schema[i].table],
   total_columns |-> SumOfLengths(database_schema),
   recommendation |-> recommendation(detected[1], detected[2], detected[3])]

\* ChatbotAgent.analyze_schema
analyze_schema(self, database_schema) ==
  CHOOSE result \in
    {analysis(detected, database_schema) :
       detected \in {detect_domain(self.domain_signatures, self.model,
                                   database_schema)}} : TRUE

\* the list object that is the value of 'keywords' in the i-th entry of
\* domain_signatures: whoever holds it reads and writes that entry's list
KeywordsObject(i) == [keywords_of |-> i]

\* ChatbotAgent.get_supported_domains: a new dict whose values are the
\* keyword lists of the table themselves, not copies of them
get_supported_domains(self) ==
  [i \in 1..Len(self.domain_signatures) |->
     [k |-> self.domain_signatures[i].name, v |-> KeywordsObject(i)]]

(***************************************************************************)
(* Any sequence of calls of the operations of one agent; seen keeps the    *)
(* names of the operations called so far                                   *)
(***************************************************************************)
AgentSchemas == {SchemaExample, SchemaPlain}
AgentPrompts == {PromptTop5}
AgentChartCalls ==
  {[data |-> Some(Frame(10, 0, 1, 1, 0)), question |-> PromptTop5,
    intent |-> "top_bottom", domain |-> "retail"],
   [data |-> Some(Frame(10, 0, 2, 0, 0)), question |-> PromptCompare,
    intent |-> "query_data", domain |-> "finance"],
   [data |-> None, question |-> PromptTop5,
    intent |-> "query_data", domain |-> "general"]}
AgentProcessCalls ==
  {Call(PromptTop5, SchemaExample,
        Some(Returning(DataFrameOf(Frame(10, 0, 1, 1, 0)))), Reply(SqlPlain))}

InitAgent == InitIdle /\ model \in ProcessProviders

CalledSoFar == IF seen = None THEN {} ELSE seen[1]
Noted == seen' = Some(CalledSoFar \cup {op'})

AgentDetectDomain == \E schema \in AgentSchemas : DetectDomainOf(schema) /\ Noted
AgentClassify == \E prompt \in AgentPrompts : ClassifyOf(prompt) /\ Noted
AgentExtractEntities ==
  \E prompt \in AgentPrompts : ExtractEntitiesOf(prompt) /\ Noted

AgentCreateChart ==
  \E call \in AgentChartCalls :
    /\ pc = "idle"
    /\ op' = "create_chart"
    /\ arg' = call
    /\ ret' = create_chart(domain_chart_preferences, call.data, call.question,
                           call.intent, call.domain)
    /\ Noted
    /\ UNCHANGED <<statics, pc, locals>>

AgentProcess ==
  \E call \in AgentProcessCalls :
    /\ pc = "idle"
    /\ op' = "process"
    /\ arg' = call
    /\ locals' = <<process(Self, call)>>
    /\ ret' = locals'[1].result[1]
    /\ Noted
    /\ UNCHANGED <<statics, pc>>

AnalyzeSchema ==
  \E schema \in AgentSchemas :
    /\ pc = "idle"
    /\ op' = "analyze_schema"
    /\ arg' = schema
    /\ ret' = analyze_schema(Self, schema)
    /\ Noted
    /\ UNCHANGED <<statics, pc, locals>>

\* get_supported_domains taking the keyword lists out of the table
\* (config.pop('keywords')) to build its result
GetSupportedDomainsDraining ==
  /\ pc = "idle"
  /\ op' = "get_supported_domains"
  /\ arg' = None
  /\ ret' = get_supported_domains(Self)
  /\ domain_signatures' =
       [i \in 1..Len(domain_signatures) |->
          [domain_signatures[i] EXCEPT !.keywords = <<>>]]
  /\ Noted
  /\ UNCHANGED <<intents, model, domain_chart_preferences, pc, locals>>

GetSupportedDomains ==
  /\ pc = "idle"
  /\ op' = "get_supported_domains"
  /\ arg' = None
  /\ ret' = get_supported_domains(Self)
  /\ Noted
  /\ UNCHANGED <<statics, pc, locals>>

NextAgent ==
  \/ AgentDetectDomain
  \/ AgentClassify
  \/ AgentExtractEntities
  \/ AgentCreateChart
  \/ AgentProcess
  \/ AnalyzeSchema
  \/ GetSupportedDomains
SpecAgent == InitAgent /\ [][NextAgent]_vars

(***************************************************************************)
(* A caller that keeps the mapping get_supported_domains returned and      *)
(* changes keyword lists in it; locals holds the mapping the caller has,   *)
(* seen what detect_domain returns for each schema with the tables as they *)
(* are at construction                                                     *)
(***************************************************************************)
CallerSchemas == {SchemaExample, SchemaOrders, SchemaPlain}

\* the keyword a caller appends: 'id', a column of the example schema
NewKeyword == <<"i","d">>

\* the leading entries of the mapping whose lists the caller changes
MaxChanged == 3

InitCaller ==
  /\ intents = IntentsTable
  /\ domain_signatures = DomainSignaturesTable
  /\ domain_chart_preferences = DomainChartPreferencesTable
  /\ model = PlainProvider
  /\ pc = "idle" /\ op = "init" /\ arg = None /\ ret = None
  /\ locals = <<>>
  /\ seen = [schema \in CallerSchemas |->
               detect_domain(DomainSignaturesTable, PlainProvider, schema)]

CallerGetSupportedDomains ==
  /\ pc = "idle"
  /\ op' = "get_supported_domains"
  /\ arg' = None
  /\ ret' = get_supported_domains(Self)
  /\ locals' = ret'
  /\ UNCHANGED <<statics, pc, seen>>

\* list.append(NewKeyword) or list.clear() on a value of the mapping
Changed(keywords, change) ==
  IF change = "append" THEN Append(keywords, NewKeyword) ELSE <<>>

\* the caller changes the list it holds for the d-th domain: the list is
\* the object the table holds, so the change is a change of the table
CallerChange ==
  \E d \in 1..MaxChanged, change \in {"append", "clear"} :
    /\ pc = "idle"
    /\ d <= Len(locals)
    /\ LET i == locals[d].v.keywords_of
       IN  /\ change = "append" => ~InList(NewKeyword, domain_signatures[i].keywords)
           /\ change = "clear" => Len(domain_signatures[i].keywords) > 0
           /\ domain_signatures' =
                [domain_signatures EXCEPT ![i].keywords = Changed(@, change)]
    /\ op' = "change"
    /\ arg' = [domain |-> locals[d].k, change |-> change]
    /\ ret' = None
    /\ UNCHANGED <<intents, model, domain_chart_preferences, pc, seen, locals>>

CallerDetectDomain ==
  \E schema \in CallerSchemas : DetectDomainOf(schema) /\ UNCHANGED seen

NextCaller == CallerGetSupportedDomains \/ CallerChange \/ CallerDetectDomain
SpecCaller == InitCaller /\ [][NextCaller]_vars

(***************************************************************************)
(* Properties of detect_domain (SpecDetect)                                *)
(***************************************************************************)
DeclaredDomains ==
  <<"healthcare", "finance", "hospital", "retail", "education", "hr",
    "logistics", "ecommerce">>

DetectReturned == op = "detect_domain"

\* the score the result reports for the i-th entry of all_scores
ScoreAt(i) == ret[3][i].v

\* comparisons of a float with 0.3, 0 and 1, by cross-multiplication
BelowPoint3(s) == ~s.nan /\ 10 * s.n < 3 * s.d
AtLeastPoint3(s) == ~s.nan /\ 10 * s.n >= 3 * s.d
IsPoint3(s) == ~s.nan /\ 10 * s.n = 3 * s.d
InUnitInterval(s) == ~s.nan /\ 0 <= s.n /\ s.n <= s.d

\* the embeddings behind the score of the i-th domain for the schema arg
SchemaEmb == encode(model, schema_to_text(arg))
DomainEmb(i) == encode(model, domain_signatures[i].description)
NormProduct(i) == Norm(SchemaEmb) * Norm(DomainEmb(i))

RECURSIVE CountMatches(_, _)
CountMatches(keywords, text) ==
  IF Len(keywords) = 0 THEN 0
  ELSE (IF Contains(text, Head(keywords)) THEN 1 ELSE 0)
       + CountMatches(Tail(keywords), text)

\* 10 * score = 7 * cosine + 3 * matches / total, in whole numbers; the score
\* is not-a-number exactly when the cosine is undefined
IsFusedScore(i, s) ==
  LET total == Len(domain_signatures[i].keywords)
      matches == CountMatches(domain_signatures[i].keywords, schema_to_text(arg))
      nn == NormProduct(i)
  IN  IF nn = 0 THEN s.nan
      ELSE /\ ~s.nan
           /\ s.n * 10 * nn * total
                = s.d * (7 * Dot(SchemaEmb, DomainEmb(i)) * total + 3 * matches * nn)

IsFullCombinedMap(scores) ==
  /\ DictKeys(scores) = DeclaredDomains
  /\ \A i \in 1..Len(scores) : IsFusedScore(i, scores[i].v)

\* C1: when every combined score is below 0.3 the result is 'general' with
\* the maximum score as confidence and the full combined map; a named domain
\* never comes with a confidence below 0.3; a maximum of exactly 0.3 gives a
\* named domain.
C1_ThresholdLaw ==
  DetectReturned =>
    /\ (\A i \in 1..Len(ret[3]) : BelowPoint3(ScoreAt(i)))
         => /\ ret[1] = "general"
            /\ \E i \in 1..Len(ret[3]) : ScoreAt(i) = ret[2]
            /\ \A i \in 1..Len(ret[3]) : FLe(ScoreAt(i), ret[2])
            /\ IsFullCombinedMap(ret[3])
    /\ ret[1] # "general" => ~BelowPoint3(ret[2])
    /\ ( /\ \E i \in 1..Len(ret[3]) : IsPoint3(ScoreAt(i))
         /\ \A i \in 1..Len(ret[3]) : ~AtLeastPoint3(ScoreAt(i)) \/ IsPoint3(ScoreAt(i))
         /\ \A i \in 1..Len(ret[3]) : ~ScoreAt(i).nan )
         => ret[1] # "general"

\* a schema whose best score is positive and below 0.3 was detected
C1_Witness ==
  /\ DetectReturned
  /\ ret[1] = "general"
  /\ \A i \in 1..Len(ret[3]) : BelowPoint3(ScoreAt(i))
  /\ ret[2].n > 0

\* C2: when the maximum combined score is at least 0.3 the result is the
\* domain with that score, the earliest in the declared order among those
\* that share it, and the confidence is that score.
C2_ArgmaxEarliest ==
  (DetectReturned
     /\ \E j \in 1..Len(ret[3]) :
          AtLeastPoint3(ScoreAt(j)) /\ \A i \in 1..Len(ret[3]) : FLe(ScoreAt(i), ScoreAt(j)))
  => \E j \in 1..Len(DeclaredDomains) :
       /\ ret[1] = DeclaredDomains[j]
       /\ ret[3][j].k = ret[1]
       /\ ret[2] = ScoreAt(j)
       /\ \A i \in 1..Len(ret[3]) : FLe(ScoreAt(i), ScoreAt(j))
       /\ \A i \in 1..(j - 1) : FLt(ScoreAt(i), ScoreAt(j))

\* two domains shared a maximum of at least 0.3 and the earlier was returned
C2_Witness ==
  /\ DetectReturned
  /\ \E j \in 1..Len(ret[3]) :
       /\ ret[1] = ret[3][j].k
       /\ AtLeastPoint3(ScoreAt(j))
       /\ \A i \in 1..Len(ret[3]) : FLe(ScoreAt(i), ScoreAt(j))
       /\ \E i \in (j + 1)..Len(ret[3]) : FEq(ScoreAt(i), ScoreAt(j))

\* C3: all_scores has exactly the eight declared domains as keys, and the
\* score of each is 0.7 * semantic + 0.3 * keyword.
C3_ScoreFusion ==
  DetectReturned =>
    /\ Len(ret[3]) = Len(DeclaredDomains)
    /\ DictKeys(ret[3]) = DeclaredDomains
    /\ ~HasKey(ret[3], "general")
    /\ \A i \in 1..Len(ret[3]) : IsFusedScore(i, ScoreAt(i))

\* a score with a non-zero semantic and a non-zero keyword part was reported
C3_Witness ==
  /\ DetectReturned
  /\ \E i \in 1..Len(ret[3]) :
       /\ NormProduct(i) # 0
       /\ Dot(SchemaEmb, DomainEmb(i)) # 0
       /\ CountMatches(domain_signatures[i].keywords, schema_to_text(arg)) > 0

\* no embedding behind the scores of the schema arg has zero norm
CosinesDefined == \A i \in 1..Len(domain_signatures) : NormProduct(i) # 0

\* C4: with every cosine defined, the confidence and every value of
\* all_scores lie in [0,1].
C4_ScoresInUnitInterval ==
  (DetectReturned /\ CosinesDefined) =>
    /\ InUnitInterval(ret[2])
    /\ \A i \in 1..Len(ret[3]) : InUnitInterval(ScoreAt(i))

\* C5: for an empty schema, and whenever an embedding has zero norm, the
\* result is 'general'.
C5_DegenerateIsGeneral ==
  (DetectReturned /\ (arg = <<>> \/ ~CosinesDefined)) => ret[1] = "general"

DeclaredIntents ==
  <<"generate_report", "query_data", "analyze_metrics", "compare", "trend",
    "filter", "top_bottom">>

ClassifyReturned == op = "classify"

IntentScoreAt(i) == ret.all_scores[i].v

\* C7: the intent is one of the seven categories, all_scores has exactly
\* those seven keys, no score is greater than the score of the intent, no
\* earlier category has an equal score, and the confidence is the score of
\* the intent.
C7_IntentIsArgmax ==
  ClassifyReturned =>
    /\ DictKeys(ret.all_scores) = DeclaredIntents
    /\ \E j \in 1..Len(DeclaredIntents) :
         /\ ret.intent = DeclaredIntents[j]
         /\ ret.confidence = IntentScoreAt(j)
         /\ \A i \in 1..Len(DeclaredIntents) : ~FGt(IntentScoreAt(i), IntentScoreAt(j))
         /\ \A i \in 1..(j - 1) : ~FEq(IntentScoreAt(i), IntentScoreAt(j))

\* two categories shared the greatest score and the earlier was returned,
\* and it was not the first of the table
C7_Witness ==
  /\ ClassifyReturned
  /\ \E j \in 2..Len(DeclaredIntents) :
       /\ ret.intent = DeclaredIntents[j]
       /\ \A i \in 1..Len(DeclaredIntents) : FLe(IntentScoreAt(i), IntentScoreAt(j))
       /\ \E i \in (j + 1)..Len(DeclaredIntents) : FEq(IntentScoreAt(i), IntentScoreAt(j))

(***************************************************************************)
(* Properties of create_chart (SpecChart)                                  *)
(***************************************************************************)
ChartReturned == op = "create_chart" /\ ~ret.raised

\* the result set of the call, and what the rules of the cascade look at
HasRows == arg.data # None /\ ~IsEmptyFrame(arg.data[1])
RowCount == arg.data[1].nrows
CountOfDtype(dtype) ==
  Cardinality({i \in 1..Len(arg.data[1].columns) :
                 arg.data[1].columns[i].dtype = dtype})
NumNumeric == CountOfDtype("number")
NumCategorical == CountOfDtype("object")
NumTemporal == CountOfDtype("datetime64")
Mentions(words) == ContainsAny(Lower(arg.question), words)
Avoided(chart) ==
  InList(chart, PreferenceOf(DomainChartPreferencesTable, arg.domain).avoid)

\* the conditions of the twelve rules, in their order; rules 2..12 are
\* about non-empty data
Rule(r) ==
  CASE r = 1 -> ~HasRows
    [] r = 2 -> arg.domain = "finance" /\ Mentions(WaterfallWords)
                /\ RowCount <= 10 /\ NumNumeric >= 1
    [] r = 3 -> Mentions(FunnelWords) /\ NumCategorical >= 1
                /\ NumNumeric >= 1 /\ ~Avoided("funnel")
    [] r = 4 -> Mentions(TreemapWords) /\ NumCategorical >= 2
                /\ ~Avoided("treemap")
    [] r = 5 -> Mentions(DistributionWords) /\ NumNumeric >= 1
    [] r = 6 -> Mentions(CorrelationWords) /\ NumNumeric >= 2
    [] r = 7 -> Mentions(ComparisonWords) /\ NumCategorical >= 2
    [] r = 8 -> NumTemporal >= 1 /\ NumNumeric >= 1
    [] r = 9 -> Mentions(PieWords) /\ RowCount <= 10 /\ NumCategorical >= 1
                /\ NumNumeric >= 1 /\ ~Avoided("pie")
    [] r = 10 -> (arg.intent = "top_bottom" \/ Mentions(TopBottomWords))
                 /\ NumCategorical >= 1 /\ NumNumeric >= 1
    [] r = 11 -> Mentions(HeatmapWords) /\ NumCategorical >= 2
                 /\ NumNumeric >= 1
    [] OTHER -> TRUE

\* the chart type each rule selects
RuleChart(r) ==
  CASE r = 1 -> "none"
    [] r = 2 -> "waterfall"
    [] r = 3 -> "funnel"
    [] r = 4 -> "treemap"
    [] r = 5 -> IF arg.domain \in {"education", "healthcare"}
                  THEN "box" ELSE "histogram"
    [] r = 6 -> "scatter"
    [] r = 7 -> "grouped_bar"
    [] r = 8 -> "line"
    [] r = 9 -> "pie"
    [] r = 10 -> "bar"
    [] r = 11 -> "heatmap"
    [] OTHER -> IF RowCount > 100 THEN "table"
                ELSE IF NumCategorical >= 1 /\ NumNumeric >= 1 THEN "bar"
                ELSE "table"

RECURSIVE FirstRuleFrom(_)
\* the first rule from r on whose condition holds
FirstRuleFrom(r) == IF Rule(r) THEN r ELSE FirstRuleFrom(r + 1)

Top == <<"t","o","p">>
Profit == <<"p","r","o","f","i","t">>

\* C8: whenever create_chart returns, the chart type is that of the first
\* rule, in the order 1..12, whose condition holds; finance with a profit
\* keyword, a 'top' keyword, at most 10 rows and a numeric column gives
\* waterfall.
C8_FirstMatchingRule ==
  ChartReturned =>
    /\ ret.chart_type = RuleChart(FirstRuleFrom(1))
    /\ ( /\ HasRows /\ arg.domain = "finance" /\ RowCount <= 10
         /\ NumNumeric >= 1
         /\ Contains(Lower(arg.question), Profit)
         /\ Contains(Lower(arg.question), Top) )
         => ret.chart_type = "waterfall"

\* the conditions of rule 2 and of rule 10 both held and waterfall was chosen
C8_Witness ==
  /\ ChartReturned /\ HasRows
  /\ Rule(2) /\ Rule(10)
  /\ Contains(Lower(arg.question), Top)
  /\ ret.chart_type = "waterfall"

\* C9: the chart type returned is never in the avoid list of the domain.
C9_AvoidListRespected ==
  ChartReturned =>
    /\ ~Avoided(ret.chart_type)
    /\ arg.domain = "finance" => ret.chart_type # "funnel"
    /\ arg.domain = "healthcare" => ret.chart_type # "treemap"
    /\ arg.domain = "logistics" => ret.chart_type # "pie"
    /\ arg.domain \in {"retail", "education"} => ret.chart_type # "waterfall"

\* a funnel was asked of a finance result set that has the columns for it
C9_Witness ==
  /\ ChartReturned /\ HasRows
  /\ arg.domain = "finance"
  /\ Mentions(FunnelWords)
  /\ NumCategorical >= 1 /\ NumNumeric >= 1

\* non-empty data that matches none of the rules 2..11 and lacks a
\* categorical or a numeric column
Infeasible ==
  /\ HasRows
  /\ FirstRuleFrom(2) = 12
  /\ (NumCategorical = 0 \/ NumNumeric = 0)

\* C10 as stated: for such data create_chart returns (None, "none").
C10_InfeasibleIsNone ==
  (op = "create_chart" /\ Infeasible) =>
    ~ret.raised /\ ret.figure = None /\ ret.chart_type = "none"

\* C10 as amended: for such data create_chart does not raise and returns a
\* table figure with chart type "table"; (None, "none") is returned exactly
\* when the data is None or empty.
C10_InfeasibleIsTable ==
  op = "create_chart" =>
    /\ Infeasible =>
         /\ ~ret.raised
         /\ ret.chart_type = "table"
         /\ ret.figure # None /\ ret.figure[1].kind = "table"
    /\ ~ret.raised =>
         /\ (ret.chart_type = "none") = ~HasRows
         /\ (ret.figure = None) = ~HasRows

\* data with a single column that is neither numeric, text nor temporal
C10_Witness ==
  /\ op = "create_chart" /\ Infeasible
  /\ NumCategorical = 0 /\ NumNumeric = 0
  /\ ret.chart_type = "table"


(***************************************************************************)
(* Entity extraction: aggregation, limit, metrics, dimensions, period      *)
(***************************************************************************)
EntitiesReturned == op = "extract_entities"

\* the lowercased prompt of the call, and whether it contains one of words
PromptLower == Lower(arg)
Has(words) == \E w \in words : Contains(PromptLower, w)

Total == <<"t","o","t","a","l">>
Sum == <<"s","u","m">>
Average == <<"a","v","e","r","a","g","e">>
Avg == <<"a","v","g">>
Mean == <<"m","e","a","n">>
Count == <<"c","o","u","n","t">>
Max == <<"m","a","x">>
Maximum == <<"m","a","x","i","m","u","m">>
Highest == <<"h","i","g","h","e","s","t">>
Min == <<"m","i","n">>
Minimum == <<"m","i","n","i","m","u","m">>
Lowest == <<"l","o","w","e","s","t">>

SumFamily == {Total, Sum}
AverageFamily == {Average, Avg, Mean}
CountFamily == {Count}
MaxFamily == {Max, Maximum, Highest}
MinFamily == {Min, Minimum, Lowest}

\* C11: the aggregation is 'sum' if the lowercased prompt contains 'total'
\* or 'sum'; otherwise 'average' if it contains 'average', 'avg' or 'mean';
\* otherwise 'count' if it contains 'count'; otherwise 'max' if it contains
\* 'max', 'maximum' or 'highest'; otherwise 'min' if it contains 'min',
\* 'minimum' or 'lowest'; otherwise none
C11_AggregationPriority ==
  EntitiesReturned =>
    /\ (ret.aggregation = Some("sum")) <=> Has(SumFamily)
    /\ (ret.aggregation = Some("average")) <=>
         (~Has(SumFamily) /\ Has(AverageFamily))
    /\ (ret.aggregation = Some("count")) <=>
         (~Has(SumFamily) /\ ~Has(AverageFamily) /\ Has(CountFamily))
    /\ (ret.aggregation = Some("max")) <=>
         (~Has(SumFamily) /\ ~Has(AverageFamily) /\ ~Has(CountFamily)
          /\ Has(MaxFamily))
    /\ (ret.aggregation = Some("min")) <=>
         (~Has(SumFamily) /\ ~Has(AverageFamily) /\ ~Has(CountFamily)
          /\ ~Has(MaxFamily) /\ Has(MinFamily))
    /\ (ret.aggregation = None) <=>
         ~Has(SumFamily \cup AverageFamily \cup CountFamily \cup MaxFamily
              \cup MinFamily)

\* 'total average' has been given and its aggregation is 'sum'
C11_Witness ==
  /\ EntitiesReturned
  /\ arg = Total \o Space \o Average
  /\ ret.aggregation = Some("sum")

\* an integer literal of text: a longest run of decimal digits with no
\* letter, digit or underscore next to it
IsLiteral(text, i, j) ==
  /\ 1 <= i /\ i <= j /\ j <= Len(text)
  /\ \A p \in i..j : IsDigit(text[p])
  /\ i > 1 => ~IsWordChar(text[i - 1])
  /\ j < Len(text) => ~IsWordChar(text[j + 1])
Literals(text) ==
  {span \in (1..Len(text)) \X (1..Len(text)) : IsLiteral(text, span[1], span[2])}
FirstLiteral(text) ==
  CHOOSE span \in Literals(text) : \A other \in Literals(text) : span[1] <= other[1]

RECURSIVE Power10(_)
Power10(k) == IF k = 0 THEN 1 ELSE 10 * Power10(k - 1)
RECURSIVE ValueOfDigits(_, _, _)
\* the number the digits text[i..j] write
ValueOfDigits(text, i, j) ==
  IF i > j THEN 0
  ELSE DigitValue(text[i]) * Power10(j - i) + ValueOfDigits(text, i + 1, j)

RankingWords ==
  {<<"t","o","p">>, <<"b","o","t","t","o","m">>, <<"f","i","r","s","t">>,
   <<"l","a","s","t">>}

\* C12: the limit is the value of the first integer literal of the prompt
\* if and only if the prompt contains an integer literal and one of 'top',
\* 'bottom', 'first', 'last'; otherwise it is none; it is never negative
C12_LimitExtraction ==
  EntitiesReturned =>
    IF Literals(PromptLower) # {} /\ Has(RankingWords)
      THEN LET span == FirstLiteral(PromptLower)
           IN  /\ ret.limit = Some(ValueOfDigits(PromptLower, span[1], span[2]))
               /\ ret.limit[1] >= 0
      ELSE ret.limit = None

\* 'Top 5' has been given and its limit is 5
C12_Witness ==
  /\ EntitiesReturned
  /\ arg = <<"T","o","p">> \o Space \o <<"5">>
  /\ ret.limit = Some(5)

\* where kw stands in the fixed list
IndexIn(list, kw) == CHOOSE i \in 1..Len(list) : list[i] = kw

\* found holds exactly the keywords of list that occur in the lowercased
\* prompt, each once, in the order of list
IsScanOf(found, list) ==
  /\ \A k \in 1..Len(found) : InList(found[k], list)
  /\ {found[k] : k \in 1..Len(found)} =
       {list[i] : i \in {j \in 1..Len(list) : Contains(PromptLower, list[j])}}
  /\ \A k, l \in 1..Len(found) :
       k < l => IndexIn(list, found[k]) < IndexIn(list, found[l])

\* C13: metrics and dimensions are exactly the keywords of the fixed metric
\* list, respectively dimension list, that occur in the lowercased prompt,
\* each at most once and in the order of the fixed list
C13_ScanListOrder ==
  EntitiesReturned =>
    /\ IsScanOf(ret.metrics, metric_patterns)
    /\ IsScanOf(ret.dimensions, dimension_patterns)

\* a prompt that names 'revenue' before 'total' has been given, and the
\* metrics are 'total' then 'revenue'
C13_Witness ==
  /\ EntitiesReturned
  /\ arg = <<"r","e","v","e","n","u","e">> \o Space \o Total
  /\ ret.metrics = <<Total, <<"r","e","v","e","n","u","e">> >>

DeclaredPeriods ==
  <<"last_month", "current_month", "last_year", "current_year",
    "last_quarter", "last_week">>

\* the trigger phrases of a declared period
TriggersOf(period) ==
  LET entry == time_map[CHOOSE i \in 1..Len(time_map) : time_map[i].period = period]
  IN  {entry.keywords[k] : k \in 1..Len(entry.keywords)}

\* C14: the time period is the first period, in the declared order, one of
\* whose trigger phrases occurs in the lowercased prompt, whatever the order
\* of the phrases in the prompt; it is none when no trigger phrase occurs
C14_FirstDeclaredPeriod ==
  EntitiesReturned =>
    /\ \A k \in 1..Len(DeclaredPeriods) :
         (ret.time_period = Some(DeclaredPeriods[k])) <=>
           /\ Has(TriggersOf(DeclaredPeriods[k]))
           /\ \A j \in 1..(k - 1) : ~Has(TriggersOf(DeclaredPeriods[j]))
    /\ (ret.time_period = None) <=>
         \A k \in 1..Len(DeclaredPeriods) : ~Has(TriggersOf(DeclaredPeriods[k]))

\* 'this year last month' has been given and its period is last_month
C14_Witness ==
  /\ EntitiesReturned
  /\ arg = <<"t","h","i","s"," ","y","e","a","r">> \o Space
             \o <<"l","a","s","t"," ","m","o","n","t","h">>
  /\ ret.time_period = Some("last_month")

(***************************************************************************)
(* Pie collapsing and bar truncation                                       *)
(***************************************************************************)
PieReturned == op = "_create_pie_chart"
BarReturned == op = "_create_bar_chart"

\* the rows of a sequence, and the rows of the call that are not among kept
RowSet(rows) == {rows[i] : i \in 1..Len(rows)}
Remaining(kept) == RowSet(arg) \ RowSet(kept)

RECURSIVE SumOfSet(_)
\* the sum of the values of a set of rows, a missing value adding nothing
SumOfSet(rows) ==
  IF rows = {} THEN 0
  ELSE LET row == CHOOSE r \in rows : TRUE
       IN  (IF row.value = None THEN 0 ELSE row.value[1]) + SumOfSet(rows \ {row})

\* s has a larger value than r; a missing value is larger than nothing
RanksAbove(s, r) ==
  /\ s.value # None
  /\ r.value = None \/ s.value[1] > r.value[1]

\* kept holds n different rows of the call, and no row left out has a
\* larger value than a row that is kept
IsLargest(kept, n) ==
  /\ Len(kept) = n
  /\ Cardinality(RowSet(kept)) = n
  /\ RowSet(kept) \subseteq RowSet(arg)
  /\ \A r \in RowSet(kept), s \in Remaining(kept) : ~RanksAbove(s, r)

\* C15: given more than 8 rows, the pie data has exactly 9 rows, the 8 rows
\* with the largest values plus one row labelled 'Others' whose value is the
\* sum of the values of the remaining rows; given 8 rows or fewer the data
\* is used unchanged
C15_PieCollapse ==
  PieReturned =>
    IF Len(arg) > 8
      THEN /\ Len(ret) = 9
           /\ IsLargest(SubSeq(ret, 1, 8), 8)
           /\ ret[9].label = "Others"
           /\ ret[9].value = Some(SumOfSet(Remaining(SubSeq(ret, 1, 8))))
      ELSE ret = arg

\* no value of the result set is missing
AllValued == \A i \in 1..Len(arg) : arg[i].value # None

\* the statement of C15 for result sets without a missing value
C15_PieCollapseValued == AllValued => C15_PieCollapse

\* C16: when the data has more than 20 rows, the bar chart is built from
\* exactly the 20 rows with the largest values of the numeric column; when
\* it has 20 rows or fewer, from all rows
C16_BarTruncation ==
  BarReturned =>
    IF Len(arg) > 20 THEN IsLargest(ret, 20) ELSE ret = arg

\* a bar chart of 25 rows whose values differ has been built from 20 rows
C16_Witness ==
  /\ BarReturned
  /\ Len(arg) = 25 /\ Len(ret) = 20
  /\ \E i, j \in 1..Len(arg) : RanksAbove(arg[i], arg[j])

(***************************************************************************)
(* process: failures, the context block of the SQL prompt, concurrency     *)
(***************************************************************************)
ProcessReturned == op = "process" /\ pc = "idle"

\* what the call was given, and what its components do when they are called
DetectRaises == schema_to_text(arg.database_schema) \in arg.service.broken
ClassifyRaises == Lower(arg.user_prompt) \in arg.service.broken
SqlRaises == arg.service.sql_reply.fails
CallbackGiven == arg.execute_query # None
CallbackRaises == CallbackGiven /\ arg.execute_query[1].raises
ResponseRaises == arg.service.response_reply.fails

\* the run gets as far as SQL generation, the callback, the response
ReachesSql == ~DetectRaises /\ ~ClassifyRaises
ReachesCallback == ReachesSql /\ ~SqlRaises /\ CallbackGiven
ReachesResponse == ReachesSql /\ ~SqlRaises /\ ~CallbackRaises

Detected == detect_domain(DomainSignaturesTable, model, arg.database_schema)

\* part occurs in text
Carries(text, part) ==
  \E i \in 1..Len(text) : SubSeq(text, i, i + Len(part) - 1) = part

\* C17: when the callback raises, process returns a result with success
\* false, generated_query equal to the SQL text that was generated, an error
\* and a response carrying the exception's message, query_results None,
\* visualization None, chart_type 'none' and the detected domain
C17_ExecutionError ==
  (ProcessReturned /\ ReachesCallback /\ CallbackRaises) =>
    /\ ret.success = FALSE
    /\ ret.generated_query = clean_sql(arg.service.sql_reply.content)
    /\ ret.generated_query = locals[1].generated_query[1]
    /\ Carries(ret.error, arg.execute_query[1].message)
    /\ Carries(ret.response, arg.execute_query[1].message)
    /\ ret.query_results = None
    /\ ret.visualization = None
    /\ ret.chart_type = "none"
    /\ ret.domain = Detected[1]
    /\ ret.domain # "unknown"

\* the callback has raised after the SQL of a fenced reply was generated
C17_Witness ==
  /\ ProcessReturned /\ ReachesCallback /\ CallbackRaises
  /\ arg.service.sql_reply.content = SqlFenced
  /\ ret.success = FALSE
  /\ ret.generated_query =
       <<"s","e","l","e","c","t"," ","a"," ","f","r","o","m"," ","t">>

\* the chart selector is called and raises
ChartRaises ==
  /\ ReachesResponse /\ ~ResponseRaises
  /\ CallbackGiven
  /\ arg.execute_query[1].result # None
  /\ arg.execute_query[1].result[1].type = "DataFrame"
  /\ ~IsEmptyFrame(arg.execute_query[1].result[1].df)
  /\ create_chart(DomainChartPreferencesTable,
                  Some(arg.execute_query[1].result[1].df), arg.user_prompt,
                  classify(IntentsTable, model, arg.user_prompt).intent,
                  Detected[1]).raised

\* the message of the exception a component raises first, or None
FirstException ==
  IF DetectRaises \/ ClassifyRaises THEN Some(EncoderFailure)
  ELSE IF SqlRaises
    THEN Some(<<"LLM generation failed: ">> \o arg.service.sql_reply.message)
  ELSE IF CallbackRaises THEN None
  ELSE IF ResponseRaises
    THEN Some(<<"LLM generation failed: ">> \o arg.service.response_reply.message)
  ELSE IF ChartRaises THEN Some(IndexOutOfRange)
  ELSE None

\* C18: process never propagates an exception raised by domain detection,
\* intent classification, entity extraction, SQL generation, response
\* generation or chart creation: it returns a result with success false,
\* domain 'unknown' and the exception's message in error, also when domain
\* detection had already succeeded
C18_FailureIsUnknown ==
  (ProcessReturned /\ FirstException # None) =>
    /\ ret.success = FALSE
    /\ ret.domain = "unknown"
    /\ ret.error = FirstException[1]
    /\ Carries(ret.response, FirstException[1])

\* the chart selector has raised after detection gave a named domain
C18_Witness ==
  /\ ProcessReturned /\ ChartRaises
  /\ Detected[1] # "general"
  /\ locals[1].detected_domain = Some(Detected[1])
  /\ ret.success = FALSE /\ ret.domain = "unknown"

\* the context block of the SQL prompt of the call, once it has been built
SqlPromptBuilt ==
  ProcessReturned /\ \E i \in 1..Len(locals[1].calls) :
                       locals[1].calls[i].name = "generate_sql"
SqlPrompt ==
  locals[1].calls[CHOOSE i \in 1..Len(locals[1].calls) :
                    locals[1].calls[i].name = "generate_sql"].input.user
Entities == extract_entities(arg.user_prompt)

IsUppercased(text, name) ==
  /\ Lower(text) = name
  /\ \A i \in 1..Len(text) : text[i] \notin {LowerChars[k] : k \in 1..Len(LowerChars)}

\* the detected domain appears uppercased in the SQL prompt
DomainUppercased ==
  SqlPromptBuilt => IsUppercased(SqlPrompt.detected_domain, DomainText[Detected[1]])

\* C19: in the SQL prompt that process builds from the extracted entities,
\* the detected domain appears uppercased, and an absent time period is
\* rendered as 'all', an absent aggregation as 'none' and an absent limit as
\* 'none'
C19_ContextSerialization ==
  SqlPromptBuilt =>
    /\ IsUppercased(SqlPrompt.detected_domain, DomainText[Detected[1]])
    /\ Entities.time_period = None => SqlPrompt.time_period = <<"all">>
    /\ Entities.aggregation = None => SqlPrompt.aggregation = <<"none">>
    /\ Entities.limit = None => SqlPrompt.limit = <<"none">>

\* C20: when two calls of process on the same agent with different inputs
\* are interleaved at any step, each returns the same result as when it runs
\* alone, having called the same components with the same data; no call
\* observes data of the other
C20_InterleavingIsSequential ==
  \A t \in Threads :
    (pc = "process" /\ op = "process" /\ locals[t].step = "done") =>
      /\ locals[t].result = seen[t].result
      /\ locals[t] = seen[t]

\* a call has returned that took its steps while another call, for which
\* another domain is detected, was under way
C20_Witness ==
  /\ pc = "process" /\ op = "process"
  /\ \E t, u \in Threads :
       /\ t # u
       /\ locals[t].step = "done" /\ locals[t].result[1].success
       /\ locals[u].step \notin {"detect_domain", "done"}
       /\ locals[u].detected_domain # locals[t].detected_domain
(***************************************************************************)
(* The keyword score of the example schema (SpecDetect)                    *)
(***************************************************************************)
\* the position of 'healthcare' in domain_signatures
Healthcare == 1

\* the score all_scores reports for the i-th domain is 0.7 * cosine +
\* 0.3 * matches / total
IsScoreOfOverlap(i, s, matches, total) ==
  LET nn == NormProduct(i)
  IN  /\ nn # 0
      /\ ~s.nan
      /\ s.n * 10 * nn * total
           = s.d * (7 * Dot(SchemaEmb, DomainEmb(i)) * total + 3 * matches * nn)

ExampleDetected ==
  /\ DetectReturned
  /\ arg = SchemaExample
  /\ NormProduct(Healthcare) # 0

\* the healthcare keyword score of the schema arg is matches / 16, and it is
\* the keyword part of the score reported for healthcare
HealthcareOverlapIs(matches) ==
  /\ domain_signatures[Healthcare].name = "healthcare"
  /\ Len(domain_signatures[Healthcare].keywords) = 16
  /\ CountMatches(domain_signatures[Healthcare].keywords, schema_to_text(arg))
       = matches
  /\ IsScoreOfOverlap(Healthcare, ScoreAt(Healthcare), matches, 16)

\* C21: for the example schema (patients: id, diagnosis, admission_date;
\* doctors: id, specialty) exactly 3 of the 16 healthcare keywords occur in
\* the flattened lowercase text (patient, diagnosis, doctor), so the
\* healthcare keyword score is 3/16 = 0.1875.
C21_ExampleOverlapIsThree == ExampleDetected => HealthcareOverlapIs(3)

\* C21 as stated: exactly 2 of the 16 keywords occur, the score is 2/16
C21_ExampleOverlapIsTwo == ExampleDetected => HealthcareOverlapIs(2)

\* the example schema was detected and its healthcare score is defined
C21_Witness ==
  /\ ExampleDetected
  /\ Contains(schema_to_text(arg), <<"d","o","c","t","o","r">>)
  /\ Contains(schema_to_text(arg), <<"p","a","t","i","e","n","t">>)

(***************************************************************************)
(* Agreement of the aggregation with the metrics (SpecEntities)            *)
(***************************************************************************)
\* word is one of the metrics of the result
InMetrics(word) == \E i \in 1..Len(ret.metrics) : ret.metrics[i] = word

\* C27: for every prompt the aggregation is 'sum' exactly when metrics
\* contains 'total' or 'sum', and when the aggregation is none, metrics
\* contains none of 'total', 'sum', 'count', 'average', 'max', 'min'.
C27_AggregationAgreesWithMetrics ==
  EntitiesReturned =>
    /\ (ret.aggregation = Some("sum")) <=> (InMetrics(Total) \/ InMetrics(Sum))
    /\ (ret.aggregation = None) =>
         \A word \in {Total, Sum, Count, Average, Max, Min} : ~InMetrics(word)

\* a prompt with 'sum' inside a word and without 'total' was given: the
\* aggregation is 'sum' and 'sum' is the one aggregating metric
C27_Witness ==
  /\ EntitiesReturned
  /\ ~Has({Total})
  /\ ret.aggregation = Some("sum")
  /\ InMetrics(Sum)
  /\ ~InMetrics(Total)

(***************************************************************************)
(* Column binding of create_chart (SpecChart)                              *)
(***************************************************************************)

\* C23: create_chart returns a chart for every non-empty data set, no rule
\* binding a first numeric or first categorical column that does not exist;
\* a question with compare or comparison over data with at least two
\* categorical columns and no numeric column gets a result, not an exception.
C23_BindingNeverFails ==
  (op = "create_chart" /\ HasRows) =>
    /\ ~ret.raised
    /\ ret.figure # None
    /\ ret.chart_type # "none"

(***************************************************************************)
(* process: the order of its steps and the use of the callback             *)
(***************************************************************************)
\* the components process has called, in the order of the calls
CallsMade == locals[1].calls
CallNames == [i \in 1..Len(CallsMade) |-> CallsMade[i].name]
WasCalled(name) == \E i \in 1..Len(CallsMade) : CallsMade[i].name = name
TimesCalled(name) ==
  Cardinality({i \in 1..Len(CallsMade) : CallsMade[i].name = name})

StepOrder ==
  <<"detect_domain", "classify", "extract_entities", "generate_sql",
    "execute_query", "generate_response", "create_chart">>
PlaceOf(name) == CHOOSE k \in 1..Len(StepOrder) : StepOrder[k] = name

\* every call comes later in StepOrder than the call before it, and after
\* every step before its own, the callback alone being left out when none
\* is given
InStepOrder ==
  /\ \A i \in 1..Len(CallNames) : CallNames[i] \in {StepOrder[k] : k \in 1..Len(StepOrder)}
  /\ \A i \in 1..(Len(CallNames) - 1) :
       PlaceOf(CallNames[i]) < PlaceOf(CallNames[i + 1])
  /\ \A i \in 1..Len(CallNames) :
       \A k \in 1..(PlaceOf(CallNames[i]) - 1) :
         WasCalled(StepOrder[k])
           \/ (StepOrder[k] = "execute_query" /\ ~CallbackGiven)

\* what the callback returns: a table with rows and columns, a table
\* without, or None
ResultIsTable ==
  /\ CallbackGiven /\ ~CallbackRaises
  /\ arg.execute_query[1].result # None
  /\ arg.execute_query[1].result[1].type = "DataFrame"
ResultHasRows ==
  ResultIsTable /\ ~IsEmptyFrame(arg.execute_query[1].result[1].df)
ResultIsEmpty ==
  ResultIsTable /\ IsEmptyFrame(arg.execute_query[1].result[1].df)

\* C24: the steps of every run occur in the order domain detection, intent
\* classification, entity extraction, SQL generation, query execution,
\* response generation, chart selection; chart selection is the last call
\* and is made only when the callback returned a result that is not None
\* and not empty; when no callback is given or the result is empty, a run
\* in which no component raises succeeds with visualization None and
\* chart_type 'none'.
C24_StepOrder ==
  ProcessReturned =>
    /\ InStepOrder
    /\ WasCalled("create_chart") =>
         /\ CallNames[Len(CallNames)] = "create_chart"
         /\ ResultHasRows
    /\ ((~CallbackGiven \/ ResultIsEmpty) /\ FirstException = None) =>
         /\ ret.success
         /\ ret.visualization = None
         /\ ret.chart_type = "none"
         /\ ~WasCalled("create_chart")

\* a run with a callback has made all seven calls, and the chart selector
\* has returned a chart
C24_Witness ==
  /\ ProcessReturned
  /\ CallNames = StepOrder
  /\ ret.success
  /\ ret.chart_type = "bar"

\* the result reports a generated query
ReportsQuery == "generated_query" \in DOMAIN ret

\* C26: in one call of process the callback is invoked at most once, only
\* after SQL generation has returned, with exactly the text reported as
\* generated_query; if it raises, neither the response generator nor the
\* chart selector is invoked in that run.
C26_CallbackOnceWithQuery ==
  ProcessReturned =>
    /\ TimesCalled("execute_query") <= 1
    /\ \A i \in 1..Len(CallsMade) :
         CallsMade[i].name = "execute_query" =>
           /\ \E j \in 1..(i - 1) : CallsMade[j].name = "generate_sql"
           /\ ~SqlRaises
           /\ CallsMade[i].input = clean_sql(arg.service.sql_reply.content)
           /\ ReportsQuery => CallsMade[i].input = ret.generated_query
    /\ (WasCalled("execute_query") /\ CallbackRaises) =>
         /\ ReportsQuery
         /\ ~WasCalled("generate_response")
         /\ ~WasCalled("create_chart")
         /\ CallNames[Len(CallNames)] = "execute_query"

\* the callback has been given the query cleaned from a fenced reply, and
\* has raised
C26_Witness ==
  /\ ProcessReturned
  /\ CallbackRaises
  /\ TimesCalled("execute_query") = 1
  /\ arg.service.sql_reply.content = SqlFenced
  /\ CallsMade[Len(CallsMade)].input = ret.generated_query
  /\ ret.generated_query # SqlFenced

(***************************************************************************)
(* Embedding calls of one detect_domain call (SpecEncode)                  *)
(***************************************************************************)
EncodeCalls == seen[1].encoded

\* the provider was called once for the schema text and then perDomain
\* times for each domain, and as often as during the call before
EncodesPerDomain(perDomain) ==
  /\ Len(EncodeCalls) = perDomain * Len(domain_signatures) + 1
  /\ EncodeCalls[1] = schema_to_text(arg)
  /\ \A i \in 1..Len(domain_signatures) :
       Cardinality({k \in 2..Len(EncodeCalls) :
                      EncodeCalls[k] = domain_signatures[i].description})
         = perDomain
  /\ seen[1].earlier # None => seen[1].earlier[1] = Len(EncodeCalls)

\* C22: during one detect_domain call the embedding provider is invoked
\* once per domain plus once for the schema text, 9 times for the 8 domains,
\* and the same number of times on every call: nothing is reused from
\* earlier calls.
C22_OneEncodePerDomain ==
  (DetectReturned /\ seen # None) => EncodesPerDomain(1)

\* C22 as stated: the provider is invoked twice per domain plus once for the
\* schema text
C22_TwoEncodesPerDomain ==
  (DetectReturned /\ seen # None) => EncodesPerDomain(2)

\* detect_domain was called a second time, on a schema with tables
C22_Witness ==
  /\ DetectReturned /\ seen # None
  /\ seen[1].earlier = Some(9)
  /\ Len(EncodeCalls) = 9
  /\ Len(arg) > 0

(***************************************************************************)
(* The static tables over a session of one agent (SpecAgent)               *)
(***************************************************************************)
AgentOperations ==
  {"detect_domain", "classify", "extract_entities", "create_chart", "process",
   "analyze_schema", "get_supported_domains"}

TablesAsConstructed ==
  /\ domain_signatures = DomainSignaturesTable
  /\ intents = IntentsTable
  /\ domain_chart_preferences = DomainChartPreferencesTable

\* C25: after any sequence of calls of detect_domain, classify,
\* extract_entities, create_chart, process, analyze_schema and
\* get_supported_domains, the domain signature table, the intent table and
\* the chart preference table equal their values at construction.
C25_TablesNeverMutated ==
  (seen # None /\ seen[1] \subseteq AgentOperations) => TablesAsConstructed

\* every one of the seven operations has been called, get_supported_domains
\* and analyze_schema among them
C25_Witness ==
  /\ seen # None
  /\ seen[1] = AgentOperations
  /\ op \in {"detect_domain", "process"}

(***************************************************************************)
(* The mapping get_supported_domains returns (SpecCaller)                  *)
(***************************************************************************)
\* C28: the value get_supported_domains returns is independent of the
\* static table: after a caller has changed a keyword list in the returned
\* mapping, detect_domain has the keyword scores, and so the result, it has
\* with the table as constructed.
C28_ReturnedMappingIndependent ==
  (op = "detect_domain" /\ Len(locals) > 0) => ret = seen[arg]

=============================================================================
